---- MODULE Spec2Model ----
(***************************************************************************)
(* Model of the Ismatec Reglo ICC communication engine                     *)
(* (src/ismatec/util.py): the Communicator thread with its request and     *)
(* response queues, in the SocketCommunicator and SerialCommunicator       *)
(* variants, the caller threads running command()/query(), the thread      *)
(* that stops the Communicator, and the pump at the other end of the link. *)
(*                                                                         *)
(* Text is a sequence of one-character strings.  Items on the two queues   *)
(* carry, next to the value the code puts there, the identity of the call  *)
(* they belong to (fields by, n); the code never reads those fields.       *)
(***************************************************************************)
EXTENDS Integers, Sequences, FiniteSets, TLC

\* ------------------------------------------------------------- bounds
NumCallers == 2      \* caller threads
MaxEvents == 2       \* inputs in one run: calls of command()/query(),
                     \* unsolicited lines of the pump, requests to stop

NumChannels == 2     \* channels the pump reports to '1xA'

\* size of the flush read, timeout_recv(100)
FlushSize == 100

VARIABLES
    variant,     \* "socket" | "serial": the Communicator subclass in use
    stop_event,  \* Communicator._stop_event
    req_q,       \* Communicator.req_q
    res_q,       \* Communicator.res_q
    running,     \* Communicator.running, a dict: channel -> bool
    wpc,         \* position of the Communicator thread in run()/loop()
    msg,         \* local of readline(): the text accumulated so far
    cur,         \* local of loop(): the request taken from req_q
    cpc,         \* per thread: "idle", or "waiting" in res_q.get()
    creq,        \* per thread: the request of its call in progress
    ncalls,      \* per thread: calls started
    returned,    \* per thread: the calls that returned, in order
    jpc,         \* position of the thread calling join()
    rx,          \* bytes sent by the pump, not yet read by the host
    wire,        \* every write the transport received, in order
    devpos,      \* how many writes the pump has dealt with
    events,      \* inputs so far: calls, unsolicited lines, stop requests
    enq,         \* every item put on req_q, in order
    served,      \* every item put on res_q, in order
    closes,      \* calls of close()
    link,        \* "up", or "down" once the connection to the pump is lost
    todo,        \* the thread using a Pump: the steps it has still to take
    nChannels,   \* Pump.nChannels; Pump.channels is 1..nChannels
    doing,       \* the call of a Pump method that thread is in, with its
                 \* arguments; as name "none" without a Pump, "idle" between
                 \* calls
    address,     \* the address the Pump or Communicator was given
    arg,         \* a call of a Protocol conversion: the method and its
                 \* arguments
    out          \* what that call gave: a string, or the exception raised

\* the state of the Pump object and of the thread that uses it
pump == <<todo, nChannels, doing>>

\* the address, and the conversion in progress
aux == <<address, arg, out>>

vars == <<variant, stop_event, req_q, res_q, running, wpc, msg, cur, cpc, creq,
          ncalls, returned, jpc, rx, wire, devpos, events, enq, served, closes,
          link, todo, nChannels, doing, address, arg, out>>

Worker == 0
Callers == 1..NumCallers
Threads == Callers \cup {Worker}

\* ------------------------------------------------------------- text
CR == "\r"
LF == "\n"
CRLF == <<CR, LF>>
Star == <<"*">>
Whitespace == {" ", "\t", CR, LF}

Min(a, b) == IF a < b THEN a ELSE b

\* s[:k]
Take(s, k) == SubSeq(s, 1, Min(k, Len(s)))
\* s[k:]
Drop(s, k) == SubSeq(s, Min(k, Len(s)) + 1, Len(s))

EndsWith(s, suffix) ==
    /\ Len(s) >= Len(suffix)
    /\ SubSeq(s, Len(s) - Len(suffix) + 1, Len(s)) = suffix

RECURSIVE LStrip(_)
LStrip(s) == IF s # <<>> /\ Head(s) \in Whitespace THEN LStrip(Tail(s)) ELSE s

RECURSIVE RStrip(_)
RStrip(s) ==
    IF s # <<>> /\ s[Len(s)] \in Whitespace THEN RStrip(SubSeq(s, 1, Len(s) - 1)) ELSE s

\* str.strip()
Strip(s) == RStrip(LStrip(s))

\* Python values of the two text types
PyStr(s) == [ty |-> "str", s |-> s]
PyBytes(s) == [ty |-> "bytes", s |-> s]
\* a == b: a bytes object never equals a str
PyEq(a, b) == a.ty = b.ty /\ a.s = b.s

DigitChars == <<"0", "1", "2", "3", "4", "5", "6", "7", "8", "9">>
IsDigit(c) == \E i \in 1..Len(DigitChars) : DigitChars[i] = c
DigitValue(c) == (CHOOSE i \in 1..Len(DigitChars) : DigitChars[i] = c) - 1
\* the byte value of a character (indexing a bytes object gives an int)
Ord(c) ==
    IF IsDigit(c) THEN 48 + DigitValue(c)
    ELSE CASE c = "^" -> 94 [] c = "U" -> 85 [] c = "X" -> 88 [] c = "A" -> 65
           [] c = "*" -> 42 [] c = "#" -> 35 [] c = CR -> 13 [] c = LF -> 10
           [] OTHER -> 63

\* ------------------------------------------------------------- protocol
Disable == <<"1", "x", "E", "0", CR>>
Enable == <<"1", "x", "E", "1", CR>>

\* what the callers ask for
Requests ==
    { [kind |-> "command", cmd |-> <<"1", "H">>],
      [kind |-> "query", cmd |-> <<"1", "f">>] }

\* requests the pump answers with an acknowledgment: stop, the mode and
\* direction settings, channel addressing, event messaging on/off
Settings ==
    { <<"1", "~", "1", CR>>, Disable, Enable } \cup
    { <<c, x, CR>> : c \in {"0", "1", "2", "3"},
                     x \in {"I", "G", "J", "K", "M", "N", "O"} }

\* requests that set a speed, a tubing diameter or a volume: the channel,
\* 'S', '+' or 'v', and the value
IsSetValue(cmd) == Len(cmd) > 3 /\ cmd[2] \in {"S", "+", "v"}

\* what the pump may answer to a write: '*' to the two event-messaging
\* directives; to a start command an ack or a nak, to a setting an ack, to
\* the query for the number of channels that number, to another query a
\* payload line; to a request it may also answer nothing
Replies(op, cmd) ==
    IF op # "cmd" THEN { Star }
    ELSE IF EndsWith(cmd, <<"H", CR>>) THEN { Star, <<"#">>, <<>> }
    ELSE IF cmd \in Settings \/ IsSetValue(cmd) THEN { Star, <<>> }
    ELSE IF cmd = <<"1", "x", "A", CR>> THEN { <<DigitChars[NumChannels + 1]>> \o CRLF, <<>> }
    ELSE { <<"5", CR, LF>>, <<>> }

\* unsolicited lines of the pump: channel started, channel stopped (two
\* channels), and a status line whose channel character is no digit
NoteLines ==
    { <<"^", "U", "1", CR, LF>>,
      <<"^", "X", "1", CR, LF>>,
      <<"^", "X", "2", CR, LF>>,
      <<"^", "U", "A", CR, LF>> }

\* ------------------------------------------------------------- state
NoRequest == [kind |-> "none", cmd |-> <<>>]
NoItem == [cmd |-> <<>>, by |-> Worker, n |-> 0]

\* a value given as address: its Python type, its len() and, for a string,
\* its text
Addr(type, len, text) == [type |-> type, len |-> len, text |-> text]

SerialPath == Addr("str", 12, "/dev/ttyUSB0")
HostPortText == Addr("str", 16, "192.168.10.12:23")
TcpUrl == Addr("str", 22, "tcp://192.168.10.12:23")
\* the tuple ('192.168.10.12', 23)
HostPort == Addr("tuple", 2, "")

Addresses ==
    { SerialPath, HostPortText, TcpUrl, HostPort,
      Addr("tuple", 1, ""), Addr("tuple", 3, ""), Addr("list", 2, ""),
      Addr("NoneType", 0, "") }

\* a Python number: an int or a float of value m * 10^e, negated if neg
Number(ty, neg, m, e) == [ty |-> ty, neg |-> neg, m |-> m, e |-> e]

\* no conversion called
NoArg == [fn |-> "none", number |-> Number("int", FALSE, 0, 0), units |-> "s"]
\* what a conversion gives: the string returned or the exception raised
Returned(s) == [err |-> "", s |-> s]
Failed(e) == [err |-> e, s |-> <<>>]
NotCalled == [err |-> "not called", s |-> <<>>]

\* the Communicator after __init__() and start()
CommInit ==
    /\ variant \in {"socket", "serial"}
    /\ stop_event = FALSE
    /\ req_q = <<>>
    /\ res_q = <<>>
    /\ running = <<>>
    /\ wpc = "top"
    /\ msg = <<>>
    /\ cur = NoItem
    /\ cpc = [t \in Threads |-> "idle"]
    /\ creq = [t \in Threads |-> NoRequest]
    /\ ncalls = [t \in Threads |-> 0]
    /\ returned = [t \in Threads |-> <<>>]
    /\ jpc = "none"
    /\ rx = <<>>
    /\ wire = <<>>
    /\ devpos = 0
    /\ events = 0
    /\ enq = <<>>
    /\ served = <<>>
    /\ closes = 0
    /\ link = "up"
    /\ address = (IF variant = "serial" THEN SerialPath ELSE HostPort)
    /\ arg = NoArg
    /\ out = NotCalled

\* no call of a Pump method, or one without arguments
NoCall(name) == [name |-> name, channel |-> 0, on |-> FALSE]

\* before a Pump or a Communicator is made
Unbuilt ==
    /\ variant = "none"
    /\ stop_event = FALSE
    /\ req_q = <<>>
    /\ res_q = <<>>
    /\ running = <<>>
    /\ wpc = "unstarted"
    /\ msg = <<>>
    /\ cur = NoItem
    /\ cpc = [t \in Threads |-> "idle"]
    /\ creq = [t \in Threads |-> NoRequest]
    /\ ncalls = [t \in Threads |-> 0]
    /\ returned = [t \in Threads |-> <<>>]
    /\ jpc = "none"
    /\ rx = <<>>
    /\ wire = <<>>
    /\ devpos = 0
    /\ events = 0
    /\ enq = <<>>
    /\ served = <<>>
    /\ closes = 0
    /\ link = "up"
    /\ todo = <<>>
    /\ nChannels = 0

\* a Communicator used directly by its callers, without a Pump
Init ==
    /\ CommInit
    /\ todo = <<>>
    /\ nChannels = 0
    /\ doing = NoCall("none")

\* ------------------------------------------------------------- command(), query()
\* a value as a Python bool or str
RetBool(b) == [ty |-> "bool", b |-> b, s |-> <<>>]
RetStr(s) == [ty |-> "str", b |-> FALSE, s |-> s]

\* command() that takes everything but a nak for an acknowledgment
CommandReturnNotNak(result) == RetBool(result # <<"#">>)

\* command(): True exactly for the response '*'
CommandReturn(result) == RetBool(result = Star)
\* query(): the response, stripped
QueryReturn(result) == RetStr(Strip(result))

\* req_q.put(cmd) of command()/query(), run by thread t
Put(t, r, cmd) ==
    LET item == [cmd |-> cmd, by |-> t, n |-> ncalls[t] + 1] IN
    /\ cpc[t] = "idle"
    /\ req_q' = Append(req_q, item)
    /\ enq' = Append(enq, item)
    /\ cpc' = [cpc EXCEPT ![t] = "waiting"]
    /\ creq' = [creq EXCEPT ![t] = r]
    /\ ncalls' = [ncalls EXCEPT ![t] = @ + 1]

\* res_q.get() of command()/query() and their return, run by thread t; get()
\* blocks while the queue is empty
Get(t) ==
    /\ cpc[t] = "waiting"
    /\ res_q # <<>>
    /\ LET item == Head(res_q)
           ret == IF creq[t].kind = "command" THEN CommandReturn(item.res)
                  ELSE QueryReturn(item.res)
       IN returned' = [returned EXCEPT ![t] = Append(@,
              [kind |-> creq[t].kind, cmd |-> creq[t].cmd, n |-> ncalls[t],
               res |-> item.res, by |-> item.by, bn |-> item.n,
               timeout |-> item.timeout, ret |-> ret])]
    /\ res_q' = Tail(res_q)
    /\ cpc' = [cpc EXCEPT ![t] = "idle"]
    /\ creq' = [creq EXCEPT ![t] = NoRequest]
    \* the Communicator thread calls command() from SerialCommunicator.loop
    /\ wpc' = IF t = Worker THEN "ack0" ELSE wpc

\* a caller thread starts command(cmd) or query(cmd).  The callers run the
\* same code, so they are numbered in the order of their first calls.
CallerPut(c) ==
    /\ events < MaxEvents
    /\ c = 1 \/ ncalls[c - 1] > 0
    /\ events' = events + 1
    /\ \E r \in Requests : Put(c, r, PyStr(r.cmd))
    /\ UNCHANGED <<aux, pump, link, variant, stop_event, res_q, running, wpc, msg, cur, returned,
                   jpc, rx, wire, devpos, served, closes>>

\* a thread's command()/query() takes a response and returns
CallReturn(t) ==
    /\ Get(t)
    /\ UNCHANGED <<aux, pump, link, variant, stop_event, req_q, running, msg, cur, ncalls, jpc,
                   rx, wire, devpos, events, enq, served, closes>>

\* ------------------------------------------------------------- stopping
\* Communicator.join(): set the event, then wait for the thread to end
JoinSet ==
    /\ jpc = "none"
    /\ events < MaxEvents
    /\ events' = events + 1
    /\ stop_event' = TRUE
    /\ jpc' = "joining"
    /\ UNCHANGED <<aux, pump, link, variant, req_q, res_q, running, wpc, msg, cur, cpc, creq,
                   ncalls, returned, rx, wire, devpos, enq, served, closes>>

JoinReturn ==
    /\ jpc = "joining"
    /\ wpc \in {"done", "dead"}
    /\ jpc' = "joined"
    /\ UNCHANGED <<aux, pump, link, variant, stop_event, req_q, res_q, running, wpc, msg, cur, cpc,
                   creq, ncalls, returned, rx, wire, devpos, events, enq, served,
                   closes>>

\* Pump.__aexit__: set the event and return
AExit ==
    /\ events < MaxEvents
    /\ events' = events + 1
    /\ stop_event' = TRUE
    /\ UNCHANGED <<aux, pump, link, variant, req_q, res_q, running, wpc, msg, cur, cpc, creq,
                   ncalls, returned, jpc, rx, wire, devpos, enq, served,
                   closes>>

\* ------------------------------------------------------------- the pump
\* The host sees what the pump sent only when it reads: bytes sent at any
\* other moment are seen exactly as if they were sent just before the next
\* read, so the pump's steps are taken at the host's reads.
ReadPcs == {"ack0", "flush", "read_res", "ack1", "read_idle"}

\* the event-messaging flag of the pump after the first k writes: every
\* '1xE0' clears it and every '1xE1' sets it, whoever sent it
RECURSIVE EvFlag(_)
EvFlag(k) ==
    IF k = 0 THEN "0"
    ELSE IF wire[k].data = Disable THEN "0"
    ELSE IF wire[k].data = Enable THEN "1"
    ELSE EvFlag(k - 1)

\* what the pump may answer to the k-th write; to the query '1xE' it
\* answers the flag it has stored
Answers(k) ==
    IF wire[k].op = "cmd" /\ wire[k].data = <<"1", "x", "E", CR>>
    THEN { <<EvFlag(k - 1)>> \o CRLF, <<>> }
    ELSE Replies(wire[k].op, wire[k].data)

\* the pump deals with the next write it received
DeviceReply ==
    /\ link = "up"
    /\ devpos < Len(wire)
    /\ wpc \in ReadPcs
    /\ \E reply \in Answers(devpos + 1) : rx' = rx \o reply
    /\ devpos' = devpos + 1
    /\ UNCHANGED <<aux, pump, link, variant, stop_event, req_q, res_q, running, wpc, msg, cur, cpc,
                   creq, ncalls, returned, jpc, wire, events, enq, served, closes>>

\* the pump emits an unsolicited line
DeviceNotify ==
    /\ link = "up"
    /\ events < MaxEvents
    /\ wpc \in ReadPcs
    /\ \E line \in NoteLines : rx' = rx \o line
    /\ events' = events + 1
    /\ UNCHANGED <<aux, pump, link, variant, stop_event, req_q, res_q, running, wpc, msg, cur, cpc,
                   creq, ncalls, returned, jpc, wire, devpos, enq, served, closes>>

\* where the Communicator thread is about to call into its transport:
\* socket.send(), select()/socket.recv(), serial.Serial.readline()
TransportPcs(v) ==
    IF v = "socket"
    THEN {"disable", "ack0", "flush", "send", "read_res", "enable", "ack1", "read_idle"}
    ELSE {"read_idle"}

\* the connection to the pump is lost (peer reset, cable pulled).  Like the
\* pump's other steps it is seen by the host at its next transport call.
LinkFail ==
    /\ link = "up"
    /\ events < MaxEvents
    /\ wpc \in TransportPcs(variant)
    /\ link' = "down"
    /\ events' = events + 1
    /\ UNCHANGED <<aux, pump, variant, stop_event, req_q, res_q, running, wpc, msg, cur,
                   cpc, creq, ncalls, returned, jpc, rx, wire, devpos, enq, served,
                   closes>>

\* a transport call on the lost connection raises OSError (SerialException
\* on the serial port).  Neither loop() nor run() has a handler for it, so it
\* ends the thread there and then: nothing is put on res_q and close() is
\* not called.  A call that does not raise goes on as on a silent link.
IOError ==
    /\ link = "down"
    /\ wpc \in TransportPcs(variant)
    /\ wpc' = "dead"
    /\ msg' = <<>>
    /\ cur' = NoItem
    /\ UNCHANGED <<aux, pump, link, variant, stop_event, req_q, res_q, running, cpc,
                   creq, ncalls, returned, jpc, rx, wire, devpos, events, enq,
                   served, closes>>

\* ------------------------------------------------------------- transport reads
\* SocketCommunicator.timeout_recv(size): what it returns with rx buffered;
\* '' when select() times out with nothing to read
TimeoutRecv(size) == Take(rx, size)

\* a readline() that takes only '\r\n' for the end of a line
SocketLineEndCrlf(m, expired) == EndsWith(m, CRLF) \/ expired

\* readline() of SocketCommunicator stops on '\r\n', on '*', or when the
\* deadline has passed
SocketLineEnd(m, expired) == EndsWith(m, CRLF) \/ EndsWith(m, Star) \/ expired

\* serial.Serial.readline() stops on '\n' or when read(1) times out
SerialLineEnd(m, char) == EndsWith(m, <<LF>>) \/ char = <<>>

\* where the Communicator thread goes when its readline() returns
AfterReadline(pc) == IF pc = "read_res" THEN "put" ELSE "classify"

\* one iteration of the loop of SocketCommunicator.readline().  A select()
\* that timed out has used up the whole timeout, so the deadline has passed;
\* after a character was received it may or may not have passed.
SocketReadlineStep ==
    /\ variant = "socket"
    /\ wpc \in {"read_res", "read_idle"}
    /\ LET char == TimeoutRecv(1)
           m == msg \o char
       IN /\ rx' = Drop(rx, Len(char))
          /\ msg' = m
          /\ \E expired \in (IF char = <<>> THEN {TRUE} ELSE BOOLEAN) :
                 wpc' = IF SocketLineEnd(m, expired) THEN AfterReadline(wpc) ELSE wpc
    /\ UNCHANGED <<aux, pump, link, variant, stop_event, req_q, res_q, running, cur, cpc, creq,
                   ncalls, returned, jpc, wire, devpos, events, enq, served, closes>>

\* one read(1) of self.ser.readline() at line 143
SerialReadlineStep ==
    /\ variant = "serial"
    /\ wpc = "read_idle"
    /\ LET char == Take(rx, 1)
           m == msg \o char
       IN /\ rx' = Drop(rx, Len(char))
          /\ msg' = m
          /\ wpc' = IF SerialLineEnd(m, char) THEN AfterReadline(wpc) ELSE wpc
    /\ UNCHANGED <<aux, pump, link, variant, stop_event, req_q, res_q, running, cur, cpc, creq,
                   ncalls, returned, jpc, wire, devpos, events, enq, served, closes>>

\* ------------------------------------------------------------- run()
\* `while not self._stop_event.is_set()`
RunTest ==
    /\ wpc = "top"
    /\ wpc' = IF stop_event THEN "close" ELSE "check"
    /\ UNCHANGED <<aux, pump, link, variant, stop_event, req_q, res_q, running, msg, cur, cpc, creq,
                   ncalls, returned, jpc, rx, wire, devpos, events, enq, served,
                   closes>>

\* self.close(), then the thread ends
Close ==
    /\ wpc = "close"
    /\ closes' = closes + 1
    /\ wpc' = "done"
    /\ UNCHANGED <<aux, pump, link, variant, stop_event, req_q, res_q, running, msg, cur, cpc, creq,
                   ncalls, returned, jpc, rx, wire, devpos, events, enq, served>>

\* ------------------------------------------------------------- loop()
\* `if self.req_q.qsize():`
QsizeTest ==
    /\ wpc = "check"
    /\ wpc' = IF Len(req_q) > 0 THEN "disable" ELSE "read_idle"
    /\ msg' = <<>>
    /\ UNCHANGED <<aux, pump, link, variant, stop_event, req_q, res_q, running, cur, cpc, creq,
                   ncalls, returned, jpc, rx, wire, devpos, events, enq, served,
                   closes>>

\* a write to the transport (by, n: the call the data came from).  The pump
\* answers a write before the next one reaches it or not at all.
Send(op, data, by, n) ==
    /\ wire' = Append(wire, [op |-> op, data |-> data, by |-> by, n |-> n])
    /\ devpos' = Len(wire)

\* self.socket.send(b'1xE0\r')
SocketDisable ==
    /\ variant = "socket"
    /\ wpc = "disable"
    /\ Send("disable", Disable, Worker, 0)
    /\ wpc' = "ack0"
    /\ UNCHANGED <<aux, pump, link, variant, stop_event, req_q, res_q, running, msg, cur, cpc, creq,
                   ncalls, returned, jpc, rx, events, enq, served, closes>>

\* self.command(b'1xE0\r'): SerialCommunicator has no method command of its
\* own, so this is Communicator.command, run by the Communicator thread: it
\* puts the directive on req_q and waits in res_q.get() (Get(Worker)).  Only
\* loop() puts on res_q, so the statements after line 129 are never reached.
SerialDisable ==
    /\ variant = "serial"
    /\ wpc = "disable"
    /\ Put(Worker, [kind |-> "command", cmd |-> Disable], PyBytes(Disable))
    /\ wpc' = "in_command"
    /\ UNCHANGED <<aux, pump, link, variant, stop_event, res_q, running, msg, cur, returned, jpc,
                   rx, wire, devpos, events, served, closes>>

\* self.timeout_recv(1) after the directive
RecvAck0 ==
    /\ variant = "socket"
    /\ wpc = "ack0"
    /\ rx' = Drop(rx, Len(TimeoutRecv(1)))
    /\ wpc' = "flush"
    /\ UNCHANGED <<aux, pump, link, variant, stop_event, req_q, res_q, running, msg, cur, cpc, creq,
                   ncalls, returned, jpc, wire, devpos, events, enq, served, closes>>

\* flush = self.timeout_recv(100)
Flush ==
    /\ variant = "socket"
    /\ wpc = "flush"
    /\ rx' = Drop(rx, Len(TimeoutRecv(FlushSize)))
    /\ wpc' = "get"
    /\ UNCHANGED <<aux, pump, link, variant, stop_event, req_q, res_q, running, msg, cur, cpc, creq,
                   ncalls, returned, jpc, wire, devpos, events, enq, served, closes>>

\* a queue that hands out the newest item
QueueTakeNewest(q) == Len(q)

\* which item req_q.get() takes: the oldest
QueueTake(q) == 1

\* cmd = self.req_q.get(); get() blocks while the queue is empty
GetCmd ==
    /\ variant = "socket"
    /\ wpc = "get"
    /\ req_q # <<>>
    /\ LET i == QueueTake(req_q) IN
       /\ cur' = req_q[i]
       /\ req_q' = SubSeq(req_q, 1, i - 1) \o SubSeq(req_q, i + 1, Len(req_q))
    /\ wpc' = "send"
    /\ UNCHANGED <<aux, pump, link, variant, stop_event, res_q, running, msg, cpc, creq, ncalls,
                   returned, jpc, rx, wire, devpos, events, enq, served, closes>>

\* self.socket.send(cmd.encode() + b'\r')
SendCmd ==
    /\ variant = "socket"
    /\ wpc = "send"
    /\ Send("cmd", cur.cmd.s \o <<CR>>, cur.by, cur.n)
    /\ wpc' = "read_res"
    /\ msg' = <<>>
    /\ UNCHANGED <<aux, pump, link, variant, stop_event, req_q, res_q, running, cur, cpc, creq,
                   ncalls, returned, jpc, rx, events, enq, served, closes>>

\* a loop() that puts a response on res_q only when it read one
PutResIfAny ==
    /\ variant = "socket"
    /\ wpc = "put"
    /\ LET item == [res |-> Strip(msg), by |-> cur.by, n |-> cur.n,
                    timeout |-> (msg = <<>>)] IN
       /\ res_q' = IF msg = <<>> THEN res_q ELSE Append(res_q, item)
       /\ served' = IF msg = <<>> THEN served ELSE Append(served, item)
    /\ wpc' = "enable"
    /\ msg' = <<>>
    /\ cur' = NoItem
    /\ UNCHANGED <<aux, pump, link, variant, stop_event, req_q, running, cpc, creq,
                   ncalls, returned, jpc, rx, wire, devpos, events, enq, closes>>

\* a loop() that applies a status line it read as a response before it
\* hands it over
PutResNoting ==
    /\ variant = "socket"
    /\ wpc = "put"
    /\ LET item == [res |-> Strip(msg), by |-> cur.by, n |-> cur.n,
                    timeout |-> (msg = <<>>)] IN
       /\ res_q' = Append(res_q, item)
       /\ served' = Append(served, item)
    /\ running' = IF Len(msg) >= 3 /\ Take(msg, 1) = <<"^">> /\ IsDigit(msg[3])
                  THEN [k \in (DOMAIN running) \cup {DigitValue(msg[3])} |->
                           IF k = DigitValue(msg[3]) THEN msg[2] = "U" ELSE running[k]]
                  ELSE running
    /\ wpc' = "enable"
    /\ msg' = <<>>
    /\ cur' = NoItem
    /\ UNCHANGED <<aux, pump, link, variant, stop_event, req_q, cpc, creq,
                   ncalls, returned, jpc, rx, wire, devpos, events, enq, closes>>

\* a loop() that, when the response read timed out, puts the request back
\* at the head of req_q to be written again
PutResRequeue ==
    /\ variant = "socket"
    /\ wpc = "put"
    /\ LET item == [res |-> Strip(msg), by |-> cur.by, n |-> cur.n,
                    timeout |-> (msg = <<>>)] IN
       /\ res_q' = IF msg = <<>> THEN res_q ELSE Append(res_q, item)
       /\ served' = IF msg = <<>> THEN served ELSE Append(served, item)
       /\ req_q' = IF msg = <<>> THEN <<cur>> \o req_q ELSE req_q
    /\ wpc' = "enable"
    /\ msg' = <<>>
    /\ cur' = NoItem
    /\ UNCHANGED <<aux, pump, link, variant, stop_event, running, cpc, creq,
                   ncalls, returned, jpc, rx, wire, devpos, events, enq, closes>>

\* res = self.readline().strip(); self.res_q.put(res)
PutRes ==
    /\ variant = "socket"
    /\ wpc = "put"
    /\ LET item == [res |-> Strip(msg), by |-> cur.by, n |-> cur.n,
                    timeout |-> (msg = <<>>)] IN
       /\ res_q' = Append(res_q, item)
       /\ served' = Append(served, item)
    /\ wpc' = "enable"
    /\ msg' = <<>>
    /\ cur' = NoItem
    /\ UNCHANGED <<aux, pump, link, variant, stop_event, req_q, running, cpc, creq,
                   ncalls, returned, jpc, rx, wire, devpos, events, enq, closes>>

\* self.socket.send(b'1xE1\r')
SocketEnable ==
    /\ variant = "socket"
    /\ wpc = "enable"
    /\ Send("enable", Enable, Worker, 0)
    /\ wpc' = "ack1"
    /\ UNCHANGED <<aux, pump, link, variant, stop_event, req_q, res_q, running, msg, cur, cpc, creq,
                   ncalls, returned, jpc, rx, events, enq, served, closes>>

\* self.timeout_recv(1) after the directive; then line = self.readline()
RecvAck1 ==
    /\ variant = "socket"
    /\ wpc = "ack1"
    /\ rx' = Drop(rx, Len(TimeoutRecv(1)))
    /\ wpc' = "read_idle"
    /\ msg' = <<>>
    /\ UNCHANGED <<aux, pump, link, variant, stop_event, req_q, res_q, running, cur, cpc, creq,
                   ncalls, returned, jpc, wire, devpos, events, enq, served, closes>>

\* ------------------------------------------------------------- status lines
\* line[:k], of the type of line
Slice(line, k) == [ty |-> line.ty, s |-> Take(line.s, k)]

NoOutcome == [err |-> "none", set |-> FALSE, ch |-> 0, val |-> FALSE]
Raised(e) == [err |-> e, set |-> FALSE, ch |-> 0, val |-> FALSE]

\* ch = int(line[2]); self.running[ch] = val.  line[2] of a str is a
\* character, and int() of it raises ValueError unless it is a digit; line[2]
\* of a bytes object is the byte's value
SetFromLine(line, val) ==
    IF Len(line.s) < 3 THEN Raised("IndexError")
    ELSE IF line.ty = "bytes"
         THEN [err |-> "none", set |-> TRUE, ch |-> Ord(line.s[3]), val |-> val]
    ELSE IF IsDigit(line.s[3])
         THEN [err |-> "none", set |-> TRUE, ch |-> DigitValue(line.s[3]), val |-> val]
    ELSE Raised("ValueError")

\* the `if line[:2] == '^U' ... elif line[:2] == '^X' ...` of loop()
StatusOutcome(line) ==
    IF line.s = <<>> THEN NoOutcome
    ELSE IF PyEq(Slice(line, 2), PyStr(<<"^", "U">>)) THEN SetFromLine(line, TRUE)
    ELSE IF PyEq(Slice(line, 2), PyStr(<<"^", "X">>)) THEN SetFromLine(line, FALSE)
    ELSE NoOutcome

\* an assignment that replaces the dict by one with the single entry
SetRunningOnly(run, ch, val) == [k \in {ch} |-> val]

\* self.running[ch] = val
SetRunning(run, ch, val) ==
    [k \in (DOMAIN run) \cup {ch} |-> IF k = ch THEN val ELSE run[k]]

\* SocketCommunicator.loop catches IndexError; SerialCommunicator.loop
\* catches nothing.  An exception that leaves loop() leaves run() too.
Caught(v, e) == v = "socket" /\ e = "IndexError"

\* what readline() returned: str from the socket, bytes from the serial port
LineRead == IF variant = "socket" THEN PyStr(msg) ELSE PyBytes(msg)

\* the `if line:` part that ends loop()
Classify ==
    /\ wpc = "classify"
    /\ LET o == StatusOutcome(LineRead) IN
       /\ running' = IF o.set THEN SetRunning(running, o.ch, o.val) ELSE running
       /\ wpc' = IF o.err = "none" \/ Caught(variant, o.err) THEN "top" ELSE "dead"
    /\ msg' = <<>>
    /\ UNCHANGED <<aux, pump, link, variant, stop_event, req_q, res_q, cur, cpc, creq, ncalls,
                   returned, jpc, rx, wire, devpos, events, enq, served, closes>>

\* ------------------------------------------------------------- Pump
\* The methods of Pump run on one thread (they block in hw.command() and
\* hw.query(), so the event loop runs them one after the other); it is
\* caller 1 of the Communicator.  What is left of the method it is in is
\* kept in todo, a sequence of steps.
PumpThread == 1

\* `channel=None`
NoChannel == 0 - 1

\* f'{channel}'
Ch(c) == DigitChars[c + 1]

Call(kind, cmd) == [st |-> "call", kind |-> kind, cmd |-> cmd, ch |-> 0, val |-> FALSE]
Cmd(cmd) == Call("command", cmd)
Qry(cmd) == Call("query", cmd)
Step(st, ch, val) == [st |-> st, kind |-> "", cmd |-> <<>>, ch |-> ch, val |-> val]
\* the method returns, or an exception leaves it
Return == Step("return", 0, FALSE)

\* the arguments the dispense methods are called with: 1.0 ml, 1.0 ml/min,
\* 1 min; self._volume2(1.0) and self._time2(1, units='m')
SampleVolume2 == <<"1", "0", "0", "0", "+", "0">>
SampleTime2 == <<"0", "0", "0", "0", "0", "6", "0", "0">>

\* Pump.__init__ after self.hw.start(), up to get_number_channels()
InitScript ==
    << Cmd(<<"1", "~", "1">>), Cmd(<<"1", "x", "E", "0">>),
       Qry(<<"1", "x", "A">>), Step("channels", 0, FALSE) >>

\* the rest of Pump.__init__ once self.channels is known
RECURSIVE StopEach(_, _)
StopEach(ch, n) ==
    IF ch > n THEN <<>> ELSE <<Cmd(<<Ch(ch), "I">>)>> \o StopEach(ch + 1, n)

InitRest(n) == StopEach(1, n) \o <<Step("set_list", 0, FALSE), Return>>

\* the part of continuous_flow and dispense_vol_at_rate that finds maxrate
RECURSIVE MaxRateEach(_, _)
MaxRateEach(ch, n) ==
    IF ch > n THEN <<>>
    ELSE <<Qry(<<Ch(ch), "?">>), Step("maxrate", 0, FALSE)>> \o MaxRateEach(ch + 1, n)

MaxRate(channel) ==
    IF channel = NoChannel
    THEN IF nChannels = 0 THEN <<Step("min_empty", 0, FALSE)>>
         ELSE MaxRateEach(1, nChannels)
    ELSE <<Qry(<<Ch(channel), "?">>), Step("maxrate", 0, FALSE)>>

\* dispense methods that start the pump first and record the state after
StartThenSet(c) == <<Cmd(<<Ch(c), "H">>), Step("set", c, TRUE)>>

\* the end of the four dispense methods:
\* self.hw.set_running_status(True, channel); self.hw.command(f'{channel}H')
SetThenStart(c) == <<Step("set", c, TRUE), Cmd(<<Ch(c), "H">>)>>

\* the body of each method as the steps it takes, c being the channel
\* after `channel = 0` has replaced None
Body(name, channel, on) ==
    LET c == IF channel = NoChannel THEN 0 ELSE channel
        d == Ch(c)
        flow == Qry(<<d, "f">> \o SampleVolume2)
        vol == Qry(<<d, "v">> \o SampleVolume2)
        time == Qry(<<d, "x", "T">> \o SampleTime2)
        go == SetThenStart(c)
    IN CASE name = "start" ->
              <<Cmd(<<d, "H">>), Step("set_result", c, FALSE)>>
         [] name = "stop" ->
              <<Cmd(<<d, "I">>), Step("set_result", c, TRUE)>>
         [] name = "continuous_flow" ->
              MaxRate(channel) \o <<Cmd(<<d, "M">>), Cmd(<<d, "J">>), flow>> \o go
         [] name = "dispense_vol_at_rate" ->
              MaxRate(channel)
                \o <<Cmd(<<d, "O">>), Cmd(<<d, "J">>), flow, flow, vol>> \o go
         [] name = "dispense_vol_over_time" ->
              <<Cmd(<<d, "G">>), Cmd(<<d, "J">>), vol, time>> \o go
         [] name = "dispense_flow_over_time" ->
              <<Cmd(<<d, "J">>), Qry(<<d, "M">>), Cmd(<<d, "N">>), flow, time>> \o go
         [] name = "event_messaging" ->
              <<Cmd(<<"1", "x", "E", IF on THEN "1" ELSE "0">>), Qry(<<"1", "x", "E">>)>>

Script(name, channel, on) == Body(name, channel, on) \o <<Return>>

\* the calls the thread may make: start and stop on channel None (0) or a
\* channel of self.channels; the dispense methods likewise, those with a
\* default of None called without a channel; and set_event_messaging(on)
\* followed by has_event_messaging(), as test_event_messaging_roundtrip
\* calls them
PumpCalls ==
    { [name |-> m, channel |-> c, on |-> FALSE] :
          m \in {"start", "stop", "dispense_vol_over_time", "dispense_flow_over_time"},
          c \in 0..nChannels }
    \cup { [name |-> m, channel |-> c, on |-> FALSE] :
          m \in {"continuous_flow", "dispense_vol_at_rate"},
          c \in {NoChannel} \cup (1..nChannels) }
    \cup { [name |-> "event_messaging", channel |-> 0, on |-> b] : b \in BOOLEAN }

\* what the thread's latest command()/query() returned
LastRet == returned[PumpThread][Len(returned[PumpThread])].ret

\* int(s), float(s) for the text of the model, which has no sign, point or
\* exponent: a non-empty run of digits is a number, anything else raises
\* ValueError
IsNumber(s) == s # <<>> /\ \A i \in 1..Len(s) : IsDigit(s[i])

RECURSIVE IntValue(_)
IntValue(s) ==
    IF s = <<>> THEN 0
    ELSE 10 * IntValue(SubSeq(s, 1, Len(s) - 1)) + DigitValue(s[Len(s)])

\* s.split(' ')[0]
RECURSIVE FirstField(_)
FirstField(s) ==
    IF s = <<>> \/ Head(s) = " " THEN <<>> ELSE <<Head(s)>> \o FirstField(Tail(s))

\* get_number_channels(): int(self.hw.query('1xA')), 0 on ValueError
NumberChannels(reply) == IF IsNumber(reply) THEN IntValue(reply) ELSE 0

\* the keys of a dict as a sequence, in ascending order
RECURSIVE Keys(_)
Keys(S) ==
    IF S = {} THEN <<>>
    ELSE LET k == CHOOSE x \in S : \A y \in S : x <= y
         IN <<k>> \o Keys(S \ {k})

\* a set_running_status that treats every channel as it treats channel 0
SetRunningStatusAll(status, list, channel) ==
    LET chs == Keys(DOMAIN running)
    IN [i \in 1..Len(chs) |-> Step("setkey", chs[i], status)]

\* the assignments self.running[ch] = status that set_running_status(status,
\* channel) makes, in order: for a list (here self.channels) one for each
\* element, for 0 one for each key the dict has at this moment, otherwise one
SetRunningStatus(status, list, channel) ==
    LET chs == IF list THEN [i \in 1..nChannels |-> i]
               ELSE IF channel = 0 THEN Keys(DOMAIN running)
               ELSE <<channel>>
    IN [i \in 1..Len(chs) |-> Step("setkey", chs[i], status)]

\* The Communicator thread reads req_q only in its qsize() test, never reads
\* res_q, and writes running only when it has classified a line.  A step of
\* the thread using the Pump therefore has the same effect wherever in a loop
\* iteration of the Communicator it falls, as long as it falls on the same
\* side of that iteration's classification: its steps are taken right after a
\* response was put, at the qsize() test, or when the Communicator thread has
\* come to rest.
PumpTurn == wpc \in {"enable", "check", "in_command", "done", "dead"}

\* the last k elements of a sequence, all of it when it is shorter
LastOf(q, k) == SubSeq(q, Len(q) - Min(k, Len(q)) + 1, Len(q))

\* a Pump.__init__ that takes a tuple of any length for a socket address
SelectAnyTuple(a) ==
    IF a.type = "str" THEN "serial"
    ELSE IF a.type = "tuple" THEN "socket"
    ELSE "none"

\* the Communicator subclass Pump.__init__ makes for an address, "none"
\* where it raises RuntimeError
Select(a) ==
    IF a.type = "str" THEN "serial"
    ELSE IF a.type = "tuple" /\ a.len = 2 THEN "socket"
    ELSE "none"

\* Pump.__init__ up to self.hw.start().  The constructor of the Communicator
\* opens the port or connects the socket in init(), which may fail: the
\* exception leaves Pump.__init__ before the thread is started.
PumpNew ==
    /\ doing.name = "new"
    /\ LET v == Select(address) IN
         \/ /\ v = "none"
            /\ doing' = NoCall("rejected")
            /\ UNCHANGED <<variant, wpc, todo>>
         \/ /\ v # "none"
            /\ variant' = v
            /\ \/ /\ wpc' = "top"
                  /\ todo' = InitScript
                  /\ doing' = NoCall("__init__")
               \/ /\ doing' = NoCall("failed")
                  /\ UNCHANGED <<wpc, todo>>
    /\ UNCHANGED <<aux, nChannels, link, stop_event, req_q, res_q, running, msg, cur,
                   cpc, creq, ncalls, returned, jpc, rx, wire, devpos, events, enq,
                   served, closes>>

\* a call of a Pump method begins
PumpBegin ==
    /\ PumpTurn
    /\ doing.name = "idle"
    /\ ~stop_event
    /\ events < MaxEvents
    /\ events' = events + 1
    /\ \E m \in PumpCalls :
           /\ todo' = Script(m.name, m.channel, m.on)
           /\ doing' = m
    /\ UNCHANGED <<aux, nChannels, link, variant, stop_event, req_q, res_q, running, wpc,
                   msg, cur, cpc, creq, ncalls, returned, jpc, rx, wire, devpos,
                   enq, served, closes>>

\* The method is left.  The records kept for the properties (wire, enq,
\* served, returned, ncalls) are emptied but for what a later step can still
\* refer to: the latest write, which has the pump's event-messaging flag
\* and may yet be answered.
PumpEnd ==
    /\ PumpTurn
    /\ todo # <<>>
    /\ Head(todo).st = "return"
    /\ todo' = <<>>
    /\ doing' = NoCall("idle")
    /\ wire' = LastOf(wire, 1)
    /\ devpos' = devpos - (Len(wire) - Len(wire'))
    /\ enq' = <<>>
    /\ served' = <<>>
    /\ returned' = [returned EXCEPT ![PumpThread] = <<>>]
    /\ ncalls' = [ncalls EXCEPT ![PumpThread] = 0]
    /\ UNCHANGED <<aux, nChannels, link, variant, stop_event, req_q, res_q, running, wpc,
                   msg, cur, cpc, creq, jpc, rx, events, closes>>

\* a command()/query() that writes the request to the transport itself
PumpCallDirect ==
    /\ PumpTurn
    /\ todo # <<>>
    /\ Head(todo).st = "call"
    /\ cpc[PumpThread] = "idle"
    /\ Send("cmd", Head(todo).cmd \o <<CR>>, PumpThread, ncalls[PumpThread] + 1)
    /\ cpc' = [cpc EXCEPT ![PumpThread] = "waiting"]
    /\ creq' = [creq EXCEPT ![PumpThread] = [kind |-> Head(todo).kind, cmd |-> Head(todo).cmd]]
    /\ ncalls' = [ncalls EXCEPT ![PumpThread] = @ + 1]
    /\ UNCHANGED <<aux, pump, link, variant, stop_event, req_q, res_q, running, wpc, msg,
                   cur, returned, jpc, rx, events, enq, served, closes>>

\* self.hw.command(...) or self.hw.query(...) up to its res_q.get().  Of
\* the records of earlier calls only the latest return is kept.
PumpCall ==
    /\ PumpTurn
    /\ todo # <<>>
    /\ Head(todo).st = "call"
    /\ Put(PumpThread, [kind |-> Head(todo).kind, cmd |-> Head(todo).cmd],
           PyStr(Head(todo).cmd))
    /\ served' = <<>>
    /\ returned' = [returned EXCEPT ![PumpThread] = LastOf(@, 1)]
    /\ UNCHANGED <<aux, pump, link, variant, stop_event, res_q, running, wpc, msg, cur,
                   jpc, rx, wire, devpos, events, closes>>

\* that command() or query() returns
PumpReturn ==
    /\ PumpTurn
    /\ todo # <<>>
    /\ Head(todo).st = "call"
    /\ Get(PumpThread)
    /\ todo' = Tail(todo)
    /\ doing' = doing
    /\ UNCHANGED <<aux, nChannels, link, variant, stop_event, req_q, running, msg, cur,
                   ncalls, jpc, rx, wire, devpos, events, enq, served, closes>>

\* self.nChannels = self.get_number_channels();
\* self.channels = list(range(1, self.nChannels + 1))
PumpChannels ==
    /\ PumpTurn
    /\ todo # <<>>
    /\ Head(todo).st = "channels"
    /\ nChannels' = NumberChannels(LastRet.s)
    /\ todo' = InitRest(nChannels') \o Tail(todo)
    /\ UNCHANGED <<aux, doing, link, variant, stop_event, req_q, res_q, running, wpc, msg,
                   cur, cpc, creq, ncalls, returned, jpc, rx, wire, devpos, events,
                   enq, served, closes>>

\* maxrate = float(self.hw.query(f'{ch}?').split(' ')[0]), or min() of an
\* empty list: a ValueError leaves the method
PumpMaxRate ==
    /\ PumpTurn
    /\ todo # <<>>
    /\ Head(todo).st \in {"maxrate", "min_empty"}
    /\ LET ok == Head(todo).st = "maxrate" /\ IsNumber(FirstField(LastRet.s))
           rest == IF ok THEN Tail(todo) ELSE <<Return>>
       IN todo' = rest
    /\ UNCHANGED <<aux, doing, nChannels, link, variant, stop_event, req_q, res_q, running,
                   wpc, msg, cur, cpc, creq, ncalls, returned, jpc, rx, wire,
                   devpos, events, enq, served, closes>>

\* a start() and stop() that record True whatever command() returned
ResultStatusTrue(result, negate) == TRUE

\* the status start() and stop() pass on: `result` in start(), `not result`
\* in stop()
ResultStatus(result, negate) == IF negate THEN ~result ELSE result

\* self.hw.set_running_status(status, channel) is entered: status is True
\* in the dispense methods, False in __init__, `result` in start() and
\* `not result` in stop()
PumpSetRunningStatus ==
    /\ PumpTurn
    /\ todo # <<>>
    /\ Head(todo).st \in {"set", "set_list", "set_result"}
    /\ LET h == Head(todo)
           status == IF h.st = "set_result" THEN ResultStatus(LastRet.b, h.val)
                     ELSE h.val
       IN todo' = SetRunningStatus(status, h.st = "set_list", h.ch) \o Tail(todo)
    /\ UNCHANGED <<aux, doing, nChannels, link, variant, stop_event, req_q, res_q, running, wpc,
                   msg, cur, cpc, creq, ncalls, returned, jpc, rx, wire, devpos,
                   events, enq, served, closes>>

\* self.running[ch] = status, on the calling thread
PumpSetKey ==
    /\ PumpTurn
    /\ todo # <<>>
    /\ Head(todo).st = "setkey"
    /\ running' = SetRunning(running, Head(todo).ch, Head(todo).val)
    /\ todo' = Tail(todo)
    /\ doing' = doing
    /\ UNCHANGED <<aux, nChannels, link, variant, stop_event, req_q, res_q, wpc, msg, cur,
                   cpc, creq, ncalls, returned, jpc, rx, wire, devpos, events, enq,
                   served, closes>>

\* `async with Pump(...)` is left: Pump.__aexit__
PumpExit ==
    /\ PumpTurn
    /\ doing.name = "idle"
    /\ ~stop_event
    /\ AExit

\* the pump leaves a request unanswered
DeviceSilent ==
    /\ link = "up"
    /\ devpos < Len(wire)
    /\ wpc \in ReadPcs
    /\ wire[devpos + 1].op = "cmd"
    /\ events < MaxEvents
    /\ events' = events + 1
    /\ devpos' = devpos + 1
    /\ UNCHANGED <<aux, pump, link, variant, stop_event, req_q, res_q, running, wpc, msg,
                   cur, cpc, creq, ncalls, returned, jpc, rx, wire, enq, served,
                   closes>>

\* ------------------------------------------------------------- Protocol
\* The conversions of class Protocol work on Python numbers and strings.  A
\* number is kept as an exact decimal m * 10^e; a float of the model is one
\* whose decimal digits Python prints back unchanged.
RECURSIVE Pow10(_)
Pow10(k) == IF k = 0 THEN 1 ELSE 10 * Pow10(k - 1)

\* the decimal digits of a natural number
RECURSIVE NatStr(_)
NatStr(n) ==
    IF n < 10 THEN <<DigitChars[n + 1]>>
    ELSE NatStr(n \div 10) \o <<DigitChars[(n % 10) + 1]>>

Zeros(k) == [i \in 1..k |-> "0"]

\* s.zfill(width): zeros on the left, after a sign if there is one
Zfill(s, width) ==
    IF Len(s) >= width THEN s
    ELSE IF s # <<>> /\ Head(s) \in {"+", "-"}
         THEN <<Head(s)>> \o Zeros(width - Len(s)) \o Tail(s)
         ELSE Zeros(width - Len(s)) \o s

\* s.replace(c, '')
Remove(s, c) == SelectSeq(s, LAMBDA x : x # c)

\* s[i] for an index counted from the left (0, 1, ...) or from the right
\* (-1, -2, ...)
At(s, i) == IF i >= 0 THEN s[i + 1] ELSE s[Len(s) + i + 1]

\* s[a:b] for 0 <= a <= b
Between(s, a, b) == SubSeq(s, a + 1, Min(b, Len(s)))

SignOf(x) == IF x.neg THEN <<"-">> ELSE <<>>

\* str() of an int
StrInt(x) == SignOf(x) \o NatStr(x.m * Pow10(x.e))

\* the digits after the point as repr() gives them: no trailing zeros, but
\* at least one digit
RECURSIVE StripZeros(_)
StripZeros(s) ==
    IF Len(s) > 1 /\ s[Len(s)] = "0" THEN StripZeros(Take(s, Len(s) - 1)) ELSE s

\* str() of a float that Python prints without an exponent
\* (1e-4 <= abs(x) < 1e16, or zero)
StrFloat(x) ==
    IF x.e >= 0 THEN SignOf(x) \o NatStr(x.m * Pow10(x.e)) \o <<".", "0">>
    ELSE LET p == Pow10(0 - x.e)
         IN SignOf(x) \o NatStr(x.m \div p) \o <<".">>
              \o StripZeros(Zfill(NatStr(x.m % p), 0 - x.e))

Str(x) == IF x.ty = "int" THEN StrInt(x) ELSE StrFloat(x)

\* `0 <= number < limit` for an integer limit
InRange(x, limit) ==
    /\ ~x.neg \/ x.m = 0
    /\ IF x.e >= 0 THEN x.m * Pow10(x.e) < limit
       ELSE x.m \div Pow10(0 - x.e) < limit

\* f'{abs(number):.3e}': four significant digits, the last one rounded, and
\* an exponent of at least two digits
Format3e(x) ==
    LET d == Len(NatStr(x.m))
        cut == Pow10(IF d > 4 THEN d - 4 ELSE 0)
        q == x.m \div cut
        r == x.m % cut
        up == 2 * r > cut \/ (2 * r = cut /\ q % 2 = 1)
        n == IF d > 4 THEN (IF up THEN q + 1 ELSE q) ELSE x.m * Pow10(4 - d)
        carry == n = 10000
        digits == Zfill(NatStr(IF carry THEN 1000 ELSE n), 4)
        e == IF x.m = 0 THEN 0 ELSE x.e + d - 1 + (IF carry THEN 1 ELSE 0)
        mag == IF e < 0 THEN 0 - e ELSE e
    IN <<digits[1], ".", digits[2], digits[3], digits[4], "e",
         IF e < 0 THEN "-" ELSE "+">> \o Zfill(NatStr(mag), 2)

\* unit_options[units]
UnitOptions(units) ==
    CASE units = "s" -> 10
      [] units = "m" -> 600
      [] units = "h" -> 36000

\* the largest time the pump takes, in tenths of a second
MaxTime == 35964000

\* int(number * unit_options[units]): the product, cut off towards zero
Tenths(x, units) ==
    LET n == x.m * UnitOptions(units)
        t == IF x.e >= 0 THEN n * Pow10(x.e) ELSE n \div Pow10(0 - x.e)
    IN Number("int", x.neg /\ t > 0, t, 0)

\* a _time1 without the upper limit
NoMinTime(x) == x

\* min(number, 35964000)
MinTime(x) == IF ~x.neg /\ x.m > MaxTime THEN Number("int", FALSE, MaxTime, 0) ELSE x

\* Protocol._time1
Time1(number, units) == Returned(Remove(Str(MinTime(Tenths(number, units))), "."))

\* Protocol._time2
Time2(number, units) == Returned(Zfill(Time1(number, units).s, 8))

\* Protocol._volume1
Volume1(number) ==
    LET s == Format3e(number)
    IN Returned(<<At(s, 0)>> \o Between(s, 2, 5) \o <<"E", At(s, 0 - 3), At(s, 0 - 1)>>)

\* Protocol._volume2
Volume2(number) == Returned(Remove(Volume1(number).s, "E"))

\* Protocol._discrete2
Discrete2(number) ==
    IF InRange(number, 10000) THEN Returned(Zfill(Str(number), 4))
    ELSE Failed("AssertionError")

\* a _discrete3 that takes 1000000 as well
Discrete3UpTo(number) ==
    IF InRange(number, 1000001) THEN Returned(Zfill(Str(number), 6))
    ELSE Failed("AssertionError")

\* Protocol._discrete3
Discrete3(number) ==
    IF InRange(number, 1000000) THEN Returned(Zfill(Str(number), 6))
    ELSE Failed("AssertionError")

\* the numbers the conversions are tried on: ints and floats, of either
\* sign, with these digits and a power of ten
MaxExp == 6

Mantissas == {0, 1, 5, 12, 102, 125, 999, 1234, 1875, 9999, 12346, 99996, 999999, 1000001}

NumDigits(x) == Len(NatStr(x.m))

Ints ==
    { Number("int", s, m, e) : s \in BOOLEAN, m \in Mantissas, e \in 0..MaxExp }
      \ { Number("int", TRUE, 0, e) : e \in 0..MaxExp }

Floats ==
    { Number("float", s, m, e) :
          s \in BOOLEAN, m \in Mantissas, e \in (0 - MaxExp)..MaxExp }

\* the values given to _discrete2 and _discrete3: below 10^9, and floats
\* that str() gives without an exponent
Discretes ==
    { x \in Ints \cup Floats : NumDigits(x) + x.e <= 9 /\ (x.m = 0 \/ NumDigits(x) + x.e >= 0 - 3) }

RECURSIVE Pow5(_)
Pow5(k) == IF k = 0 THEN 1 ELSE 5 * Pow5(k - 1)

\* A float with digits after the point is the decimal it is written as only
\* if it is a binary fraction (0.5, 0.125, 1.875).  Any other is off by a
\* rounding error, which shows in int(number * factor) where the decimal's
\* product is a whole number: int(0.102 * 36000) is 3671.  Durations of
\* that kind are not among the ones tried.
SameAsDecimal(x, factor) ==
    \/ x.e >= 0
    \/ x.m % Pow5(0 - x.e) = 0
    \/ (x.m * factor) % Pow10(0 - x.e) # 0

\* the durations given to _time1 and _time2: below 10^4 in any unit
Units == {"s", "m", "h"}
Durations(units) ==
    { x \in Ints \cup Floats :
          /\ NumDigits(x) <= 4
          /\ NumDigits(x) + x.e <= 4
          /\ SameAsDecimal(x, UnitOptions(units)) }

\* the values given to _volume1 and _volume2, among them some that need two
\* or three digits for the exponent
VolumeExponents == ((0 - MaxExp)..MaxExp) \cup {10, 0 - 10, 100, 0 - 100}
Volumes ==
    { Number(ty, s, m, e) :
          ty \in {"float"}, s \in BOOLEAN, m \in Mantissas, e \in VolumeExponents }
      \cup { x \in Ints : ~x.neg }

\* everything but the conversion in progress
rest == <<address, pump, link, variant, stop_event, req_q, res_q, running, wpc, msg,
          cur, cpc, creq, ncalls, returned, jpc, rx, wire, devpos, events, enq,
          served, closes>>

\* a call of a conversion
Conversion(fn, number, units) == [fn |-> fn, number |-> number, units |-> units]

\* Each conversion is called once, with any of its arguments, and returns
\* or raises.
CallTime1 ==
    /\ arg = NoArg
    /\ \E u \in Units : \E x \in Durations(u) :
           /\ arg' = Conversion("_time1", x, u)
           /\ out' = Time1(x, u)
    /\ UNCHANGED rest

CallTime2 ==
    /\ arg = NoArg
    /\ \E u \in Units : \E x \in Durations(u) :
           /\ arg' = Conversion("_time2", x, u)
           /\ out' = Time2(x, u)
    /\ UNCHANGED rest

CallVolume1 ==
    /\ arg = NoArg
    /\ \E x \in Volumes :
           /\ arg' = Conversion("_volume1", x, "")
           /\ out' = Volume1(x)
    /\ UNCHANGED rest

CallVolume2 ==
    /\ arg = NoArg
    /\ \E x \in Volumes :
           /\ arg' = Conversion("_volume2", x, "")
           /\ out' = Volume2(x)
    /\ UNCHANGED rest

CallDiscrete2 ==
    /\ arg = NoArg
    /\ \E x \in Discretes :
           /\ arg' = Conversion("_discrete2", x, "")
           /\ out' = Discrete2(x)
    /\ UNCHANGED rest

CallDiscrete3 ==
    /\ arg = NoArg
    /\ \E x \in Discretes :
           /\ arg' = Conversion("_discrete3", x, "")
           /\ out' = Discrete3(x)
    /\ UNCHANGED rest

\* ------------------------------------------------------------- setters
\* The set_ methods of Pump, and dispense_vol_at_rate with units='rpm'.  A
\* step of kind "encode" is the f-string of a command being built: the
\* conversion is called, and the command is sent if it returns.
Enc(fn, number, kind, cmd) ==
    [st |-> "encode", kind |-> kind, cmd |-> cmd, ch |-> 0, val |-> FALSE,
     fn |-> fn, number |-> number]

\* the method returns the value v, or the exception v leaves it
Returning(v) == [st |-> "return", kind |-> v, cmd |-> <<>>, ch |-> 0, val |-> FALSE]

\* `allgood = allgood and await self.set_rotation(rotation, channel=ch)`
\* for each channel: the call is not made once allgood is False
RECURSIVE RotateEach(_, _)
RotateEach(ch, n) ==
    IF ch > n THEN <<>>
    ELSE <<Cmd(<<Ch(ch), "J">>), Step("allgood", 0, FALSE)>> \o RotateEach(ch + 1, n)

\* int(round(rpm, 2) * 100) for a speed with at most two decimals
Hundredths(rpm) == Number("int", rpm.neg, rpm.m * Pow10(rpm.e + 2), 0)

\* rate * 100
Times100(rate) == [rate EXCEPT !.e = @ + 2]

\* the body of each of these methods as the steps it takes
SetBody(name, channel, number) ==
    LET d == Ch(channel)
        given == channel \in 1..nChannels
        result == <<Step("allgood", 0, FALSE), Returning("True")>>
    IN CASE name = "set_speed" ->
              IF ~given THEN <<Returning("AssertionError")>>
              ELSE <<Enc("_discrete3", Hundredths(number), "command", <<d, "S">>)>>
                     \o result
         [] name = "set_tubing_inner_diameter" ->
              IF channel = NoChannel
              THEN <<Returning(IF nChannels = 0 THEN "True" ELSE "coroutine")>>
              ELSE <<Enc("_discrete2", number, "command", <<d, "+">>)>> \o result
         [] name = "set_volume_setpoint" ->
              IF ~given THEN <<Returning("AssertionError")>>
              ELSE <<Cmd(<<d, "v">> \o Volume2(number).s)>> \o result
         [] name = "set_rotation" ->
              IF channel = NoChannel
              THEN RotateEach(1, nChannels) \o <<Returning("True")>>
              ELSE <<Cmd(<<d, "J">>)>> \o result
         [] name = "dispense_vol_at_rate" ->
              << Cmd(<<d, "O">>),
                 Cmd(<<d, IF number.neg THEN "K" ELSE "J">>),
                 Qry(<<d, "f">> \o Volume2(number).s),
                 Enc("_discrete3", Times100(number), "command", <<d, "S">>),
                 Qry(<<d, "v">> \o SampleVolume2),
                 Step("set", channel, TRUE),
                 Cmd(<<d, "H">>),
                 Returning("None") >>

SetCall(name, channel, number) ==
    [name |-> name, channel |-> channel, on |-> FALSE, number |-> number]

\* the calls made: the four setters without a channel and on each channel,
\* with a value their conversion takes and one it refuses (12.5 and -1 RPM,
\* 1.02 and -1 mm, 1.0 ml), and dispense_vol_at_rate(1.0, rate, units='rpm')
\* on each channel at 5 and at -5 RPM
SetterCalls ==
    { SetCall(m, c, x) :
          m \in {"set_speed", "set_tubing_inner_diameter"},
          c \in {NoChannel} \cup (1..nChannels),
          x \in {Number("float", FALSE, 125, 0 - 1), Number("float", FALSE, 102, 0 - 2),
                 Number("int", TRUE, 1, 0)} }
    \cup { SetCall(m, c, Number("float", FALSE, 1, 0)) :
          m \in {"set_volume_setpoint", "set_rotation"},
          c \in {NoChannel} \cup (1..nChannels) }
    \cup { SetCall("dispense_vol_at_rate", c, Number("float", s, 5, 0)) :
          c \in 1..nChannels, s \in BOOLEAN }

\* a call of one of these methods begins
PumpBeginSet ==
    /\ PumpTurn
    /\ doing.name = "idle"
    /\ ~stop_event
    /\ events < MaxEvents
    /\ events' = events + 1
    /\ \E m \in SetterCalls :
           /\ todo' = SetBody(m.name, m.channel, m.number)
           /\ doing' = m
    /\ arg' = NoArg
    /\ out' = NotCalled
    /\ UNCHANGED <<address, nChannels, link, variant, stop_event, req_q, res_q, running,
                   wpc, msg, cur, cpc, creq, ncalls, returned, jpc, rx, wire, devpos,
                   enq, served, closes>>

\* the conversion of an f-string is called: the command is built from what
\* it returns, or its exception leaves the method
PumpEncode ==
    /\ PumpTurn
    /\ todo # <<>>
    /\ Head(todo).st = "encode"
    /\ LET h == Head(todo) IN
         /\ arg' = Conversion(h.fn, h.number, "")
         /\ out' = (IF h.fn = "_discrete2" THEN Discrete2(h.number)
                    ELSE Discrete3(h.number))
         /\ todo' = IF out'.err = "" THEN <<Call(h.kind, h.cmd \o out'.s)>> \o Tail(todo)
                    ELSE <<Returning(out'.err)>>
    /\ UNCHANGED <<address, doing, nChannels, link, variant, stop_event, req_q, res_q,
                   running, wpc, msg, cur, cpc, creq, ncalls, returned, jpc, rx, wire,
                   devpos, events, enq, served, closes>>

\* `return self.hw.command(...)`, or `allgood and ...` in the loop over the
\* channels: False ends the method, or keeps the loop from calling again
PumpAllGood ==
    /\ PumpTurn
    /\ todo # <<>>
    /\ Head(todo).st = "allgood"
    /\ todo' = IF LastRet.b THEN Tail(todo) ELSE <<Returning("False")>>
    /\ UNCHANGED <<aux, doing, nChannels, link, variant, stop_event, req_q, res_q,
                   running, wpc, msg, cur, cpc, creq, ncalls, returned, jpc, rx, wire,
                   devpos, events, enq, served, closes>>

\* ------------------------------------------------------------- decoding
\* The repository decodes the fields in two places: mock.Communicator.command
\* reads the argument of each set command back into the value it stands for,
\* and Pump.get_flowrate reads a reply in the format of _volume1.

\* where c first occurs in s, 0 if it does not
IndexOf(s, c) ==
    IF \E i \in 1..Len(s) : s[i] = c
    THEN CHOOSE i \in 1..Len(s) : s[i] = c /\ \A j \in 1..(i - 1) : s[j] # c
    ELSE 0

\* int() of digits with an optional sign
SignedInt(s) ==
    IF s # <<>> /\ Head(s) = "-" THEN 0 - IntValue(Tail(s))
    ELSE IF s # <<>> /\ Head(s) = "+" THEN IntValue(Tail(s))
    ELSE IntValue(s)

\* float() of digits with an optional point
ParsePlain(s) ==
    LET dot == IndexOf(s, ".")
    IN IF dot = 0 THEN Number("float", FALSE, IntValue(s), 0)
       ELSE Number("float", FALSE, IntValue(Take(s, dot - 1) \o Drop(s, dot)),
                   0 - (Len(s) - dot))

\* float() of such digits with an optional exponent after 'E'
ParseFloat(s) ==
    LET at == IndexOf(s, "E")
    IN IF at = 0 THEN ParsePlain(s)
       ELSE [ParsePlain(Take(s, at - 1)) EXCEPT !.e = @ + SignedInt(Drop(s, at))]

\* x / 10^k
Shift(x, k) == [x EXCEPT !.e = @ - k]

\* get_flowrate: float(reply) / 1000
DecodeVolume1(s) == Shift(ParseFloat(s), 3)

\* mock, 'f' and 'v': exponent = int(command[-2:]);
\* matissa = float(command[1:5]) / 1000; matissa * 10**exponent
DecodeVolume2(s) ==
    Shift(Number("float", FALSE, IntValue(Take(s, 4)), SignedInt(LastOf(s, 2))), 3)

\* mock, '+' and 'S': float(command[1:]) / 100
DecodeDiscrete(s) == Shift(ParseFloat(s), 2)

\* mock, 'xT': seconds = float(command[3:]) / 10
DecodeTime(s) == Shift(ParseFloat(s), 1)

Decode(fn, s) ==
    CASE fn = "_volume1" -> DecodeVolume1(s)
      [] fn = "_volume2" -> DecodeVolume2(s)
      [] fn \in {"_discrete2", "_discrete3"} -> DecodeDiscrete(s)
      [] fn \in {"_time1", "_time2"} -> DecodeTime(s)

\* What the number given to a conversion stands for, in the unit its
\* decoder gives: a duration in seconds; the magnitude of a volume or flow
\* rate; a speed in RPM, which set_speed has multiplied by 100; a diameter
\* as set_tubing_inner_diameter passes it on.
Encoded(fn, x, units) ==
    CASE fn \in {"_volume1", "_volume2"} -> [x EXCEPT !.neg = FALSE]
      [] fn = "_discrete2" -> x
      [] fn = "_discrete3" -> Shift(x, 2)
      [] fn \in {"_time1", "_time2"} ->
             Number(x.ty, x.neg, x.m * UnitOptions(units), x.e - 1)

\* ------------------------------------------------------------- specification
WorkerStep ==
    \/ RunTest
    \/ QsizeTest
    \/ SocketDisable
    \/ SerialDisable
    \/ RecvAck0
    \/ Flush
    \/ GetCmd
    \/ SendCmd
    \/ SocketReadlineStep
    \/ SerialReadlineStep
    \/ PutRes
    \/ SocketEnable
    \/ RecvAck1
    \/ Classify
    \/ Close

Next ==
    \/ WorkerStep
    \/ IOError
    \/ LinkFail
    \/ \E c \in Callers : CallerPut(c)
    \/ \E t \in Threads : CallReturn(t)
    \/ JoinSet
    \/ JoinReturn
    \/ AExit
    \/ DeviceReply
    \/ DeviceNotify

Spec == Init /\ [][Next]_vars

\* the same, with the Communicator thread going on with a readline() it is
\* in: the thread is never suspended for ever, and select() returns after
\* the timeout at the latest
SpecFair == Init /\ [][Next]_vars /\ WF_vars(SocketReadlineStep)

\* a Pump on its Communicator.  The thread begins in Pump.__init__, right
\* after self.hw.start().
InitPump ==
    /\ CommInit
    /\ todo = InitScript
    /\ nChannels = 0
    /\ doing = NoCall("__init__")

\* the pump has dealt with every write by the time the host reads
Prompt == wpc \in ReadPcs => devpos = Len(wire)

\* the thread waiting in res_q.get() takes a response as soon as it is put
Handover == wpc = "enable" => ~(res_q # <<>> /\ cpc[PumpThread] = "waiting")

\* a line of the pump arrives whole: a readline() gives up only when there
\* is nothing more to read
WholeLines ==
    (wpc \in {"read_res", "read_idle"} /\ wpc' # wpc) =>
        (SocketLineEnd(msg', FALSE) \/ SerialLineEnd(msg', <<LF>>) \/ rx' = <<>>)

\* the Communicator thread serving a Pump
PumpWorker == Prompt /\ Handover /\ WorkerStep /\ WholeLines

\* the pump answering a request
DeviceAnswer == DeviceReply /\ rx' # rx

\* The pump answers each write before the host's read of the answer gives
\* up, unless it leaves a request unanswered, which counts as an input.
NextPump ==
    \/ PumpWorker
    \/ PumpBegin
    \/ PumpCall
    \/ PumpReturn
    \/ PumpChannels
    \/ PumpMaxRate
    \/ PumpSetRunningStatus
    \/ PumpSetKey
    \/ PumpEnd
    \/ PumpExit
    \/ DeviceAnswer
    \/ DeviceSilent
    \/ DeviceNotify

SpecPump == InitPump /\ [][NextPump]_vars

\* a Pump made for an address of any form
InitOpen ==
    /\ Unbuilt
    /\ doing = NoCall("new")
    /\ address \in Addresses
    /\ arg = NoArg
    /\ out = NotCalled

NextOpen ==
    \/ PumpNew
    \/ NextPump

SpecOpen == InitOpen /\ [][NextOpen]_vars

\* a Protocol object on its own: its conversions called with any arguments
InitCodec ==
    /\ Unbuilt
    /\ doing = NoCall("none")
    /\ address = Addr("NoneType", 0, "")
    /\ arg = NoArg
    /\ out = NotCalled

NextCodec ==
    \/ CallTime1
    \/ CallTime2
    \/ CallVolume1
    \/ CallVolume2
    \/ CallDiscrete2
    \/ CallDiscrete3

SpecCodec == InitCodec /\ [][NextCodec]_vars

\* ------------------------------------------------------------- set_running_status
\* The method taken by itself, for any dict and any argument: a channel
\* argument is an int, or a list or tuple of ints.
ChannelArg(ty, n, items) == [ty |-> ty, n |-> n, items |-> items]

\* the channel numbers used: one more than the pump has, so that there is
\* always one that may have no entry
ChannelNumbers == 1..(NumChannels + 1)

\* the dicts self.running may be: an entry for any of the channel numbers
RunningDicts ==
    UNION { [S -> BOOLEAN] : S \in SUBSET ChannelNumbers }

\* the arguments: 0, a channel number, and lists and tuples of up to two
\* channel numbers
ChannelArgs ==
    { ChannelArg("int", n, <<>>) : n \in {0} \cup ChannelNumbers }
    \cup { ChannelArg(ty, 0, items) :
             ty \in {"list", "tuple"},
             items \in {<<>>} \cup { <<a>> : a \in ChannelNumbers }
                       \cup { <<a, b>> : a, b \in ChannelNumbers } }

\* a set_running_status that takes 0 for every channel number there is
ChannelsOfEvery(run, channel) ==
    IF channel.ty \in {"list", "tuple"} THEN channel.items
    ELSE IF channel.n = 0 THEN Keys(ChannelNumbers)
    ELSE <<channel.n>>

\* the channels set_running_status assigns, in order: `for ch in channel`,
\* `for ch in list(self.running.keys())`, or the one channel
ChannelsOf(run, channel) ==
    IF channel.ty \in {"list", "tuple"} THEN channel.items
    ELSE IF channel.n = 0 THEN Keys(DOMAIN run)
    ELSE <<channel.n>>

\* self.running[ch] = status for each ch of chs in turn
RECURSIVE AssignEach(_, _, _)
AssignEach(run, chs, status) ==
    IF chs = <<>> THEN run
    ELSE AssignEach(SetRunning(run, Head(chs), status), Tail(chs), status)

\* set_running_status(status, channel) is called once, and runs to its end
CallSetRunningStatus ==
    /\ arg = NoArg
    /\ \E status \in BOOLEAN : \E channel \in ChannelArgs :
           /\ arg' = [fn |-> "set_running_status", status |-> status,
                      channel |-> channel]
           /\ running' = AssignEach(running, ChannelsOf(running, channel), status)
    /\ UNCHANGED <<address, out, pump, link, variant, stop_event, req_q, res_q, wpc,
                   msg, cur, cpc, creq, ncalls, returned, jpc, rx, wire, devpos,
                   events, enq, served, closes>>

\* a Communicator with any dict
InitStatus ==
    /\ variant \in {"socket", "serial"}
    /\ stop_event = FALSE
    /\ req_q = <<>>
    /\ res_q = <<>>
    /\ running \in RunningDicts
    /\ wpc = "unstarted"
    /\ msg = <<>>
    /\ cur = NoItem
    /\ cpc = [t \in Threads |-> "idle"]
    /\ creq = [t \in Threads |-> NoRequest]
    /\ ncalls = [t \in Threads |-> 0]
    /\ returned = [t \in Threads |-> <<>>]
    /\ jpc = "none"
    /\ rx = <<>>
    /\ wire = <<>>
    /\ devpos = 0
    /\ events = 0
    /\ enq = <<>>
    /\ served = <<>>
    /\ closes = 0
    /\ link = "up"
    /\ todo = <<>>
    /\ nChannels = 0
    /\ doing = NoCall("none")
    /\ address = Addr("NoneType", 0, "")
    /\ arg = NoArg
    /\ out = NotCalled

SpecStatus == InitStatus /\ [][CallSetRunningStatus]_vars

\* a Pump whose setters are called
NextSet ==
    \/ PumpWorker
    \/ PumpBeginSet
    \/ PumpEncode
    \/ PumpAllGood
    \/ PumpCall
    \/ PumpReturn
    \/ PumpChannels
    \/ PumpSetRunningStatus
    \/ PumpSetKey
    \/ PumpEnd
    \/ PumpExit
    \/ DeviceAnswer
    \/ DeviceSilent
    \/ DeviceNotify

SpecSet == InitPump /\ [][NextSet]_vars

\* ------------------------------------------------------------- properties
\* the writes that carried a request, in the order the transport got them
CmdWrites == SelectSeq(wire, LAMBDA w : w.op = "cmd")

\* every call of a caller that has returned
Returns == { <<c, i>> \in Callers \X (1..MaxEvents) : i <= Len(returned[c]) }
Ret(ci) == returned[ci[1]][ci[2]]

\* the call got the response the worker read for its own request
OwnResponse(ci) == Ret(ci).by = ci[1] /\ Ret(ci).bn = Ret(ci).n

\* C1: with callers running command()/query() concurrently, every call
\* returns the response the worker read for that call's own command, never
\* the one read for another call.
C1_NoCrossDelivery == \A ci \in Returns : OwnResponse(ci)

\* C2: the requests written to the transport are, in order, the first items
\* put on req_q: none overtakes another and none is skipped.
C2_WritesInQueueOrder ==
    /\ Len(CmdWrites) <= Len(enq)
    /\ \A i \in 1..Len(CmdWrites) :
           /\ CmdWrites[i].by = enq[i].by
           /\ CmdWrites[i].n = enq[i].n
           /\ CmdWrites[i].data = enq[i].cmd.s \o <<CR>>

\* C2 witness: the requests of two different callers were both written
C2_TwoCallersWritten ==
    /\ Len(CmdWrites) = 2
    /\ CmdWrites[1].by # CmdWrites[2].by

\* C3: when a request is written, every request written before it has had
\* its response put on res_q: at most one written request is unanswered.
C3_OneExchangeInFlight ==
    /\ Len(served) <= Len(CmdWrites)
    /\ Len(CmdWrites) <= Len(served) + 1
    /\ \A i \in 1..Len(served) :
           served[i].by = CmdWrites[i].by /\ served[i].n = CmdWrites[i].n

\* C3 witness: a second request is on the wire, the first one answered by a
\* timed-out read
C3_SecondWrittenAfterFirstResolved ==
    /\ Len(CmdWrites) = 2
    /\ Len(served) = 1
    /\ served[1].timeout

\* C4: the Communicator thread never waits on a queue that is empty: not in
\* req_q.get(), and not in a res_q.get() of its own.
C4_WorkerNeverWaitsOnQueue ==
    /\ wpc = "get" => req_q # <<>>
    /\ cpc[Worker] = "waiting" => res_q # <<>>

\* a complete status line '^U<d>\r\n' or '^X<d>\r\n'
IsStatusLine(m) ==
    /\ Len(m) = 5
    /\ m[1] = "^"
    /\ m[2] \in {"U", "X"}
    /\ IsDigit(m[3])
    /\ SubSeq(m, 4, 5) = CRLF

\* C5: when the worker has read a complete status line outside an exchange,
\* in either variant, it sets running[d] (True for ^U, False for ^X) and puts
\* nothing on res_q.
C5_StatusLineSetsRunning ==
    [][ (wpc = "classify" /\ wpc' # "classify" /\ IsStatusLine(msg)) =>
          /\ DigitValue(msg[3]) \in DOMAIN running'
          /\ running'[DigitValue(msg[3])] = (msg[2] = "U")
          /\ res_q' = res_q ]_vars

\* text that begins with a status prefix
HasStatusPrefix(s) == Take(s, 2) \in { <<"^", "U">>, <<"^", "X">> }

\* C6: no call of command()/query() is handed a line with a status prefix
\* as its response.
C6_NoStatusLineAsResponse == \A ci \in Returns : ~HasStatusPrefix(Ret(ci).res)

\* C7 as stated: a call whose response read timed out does not return False
\* from command() nor an empty payload from query().
C7_TimeoutIsDistinctError ==
    \A ci \in Returns :
        Ret(ci).timeout => Ret(ci).ret \notin { RetBool(FALSE), RetStr(<<>>) }

\* C7 amended: a response read that times out with no data puts the empty
\* string on res_q, and the call that takes it returns False from command()
\* and '' from query().
C7_TimeoutReturnsFalseOrEmpty ==
    \A ci \in Returns :
        Ret(ci).timeout =>
            /\ Ret(ci).res = <<>>
            /\ Ret(ci).kind = "command" => Ret(ci).ret = RetBool(FALSE)
            /\ Ret(ci).kind = "query" => Ret(ci).ret = RetStr(<<>>)

\* C7 witness: a command() and a query() both returned from timed-out reads
C7_BothKindsTimedOut ==
    /\ \E ci \in Returns : Ret(ci).timeout /\ Ret(ci).kind = "command"
    /\ \E ci \in Returns : Ret(ci).timeout /\ Ret(ci).kind = "query"

\* C8: a timed-out exchange affects no other call: every call other than the
\* one whose response read timed out still returns the response the worker
\* read for its own command.
C8_TimeoutLeavesOthersAlone ==
    \A k \in 1..Len(served) :
        served[k].timeout =>
            \A ci \in Returns :
                <<ci[1], Ret(ci).n>> # <<served[k].by, served[k].n>> => OwnResponse(ci)

\* C9: once the worker thread has ended, no caller is left blocked in
\* res_q.get() on an empty queue.
C9_NoCallerBlockedAfterStop ==
    wpc = "done" => \A c \in Callers : ~(cpc[c] = "waiting" /\ res_q = <<>>)

\* the Communicator thread can take no further step
WorkerHalted ==
    \/ wpc \in {"done", "dead"}
    \/ wpc = "in_command" /\ res_q = <<>>

\* C10: with the stop signal set, a worker that has come to rest has left
\* the loop through close(), called exactly once.
C10_StopReleasesTransport == (stop_event /\ WorkerHalted) => closes = 1

\* C11: once an I/O failure of the transport has ended the worker thread,
\* every exchange queued or in flight has been failed: no caller is left
\* blocked in res_q.get() on an empty queue.
C11_FailureReleasesCallers ==
    (link = "down" /\ wpc = "dead") =>
        \A c \in Callers : ~(cpc[c] = "waiting" /\ res_q = <<>>)

\* a line that is no well-formed status line: an unknown prefix, a status
\* prefix with no channel character, or one followed by a non-digit
Malformed(m) ==
    /\ m # <<>>
    /\ \/ ~HasStatusPrefix(m)
       \/ Len(m) < 3
       \/ ~IsDigit(m[3])

\* C12: a line read outside an exchange that is no well-formed status line
\* is discarded: running is not changed, nothing is put on res_q, and the
\* worker goes on to its next loop iteration.
C12_MalformedLineDiscarded ==
    [][ (wpc = "classify" /\ wpc' # "classify" /\ Malformed(msg)) =>
          /\ running' = running
          /\ res_q' = res_q
          /\ wpc' = "top" ]_vars

\* a response, other than the empty one of a timed-out read, of none of the
\* shapes a call of that kind expects: to a command neither '*' nor '#', to
\* a query a line with a status prefix
Unrecognised(kind, res) ==
    /\ res # <<>>
    /\ kind = "command" => res \notin { Star, <<"#">> }
    /\ kind = "query" => HasStatusPrefix(res)

\* C13 as stated: a response of no expected shape is not coerced: command()
\* does not return False for it and query() does not return it as payload.
C13_UnrecognisedRaises ==
    \A ci \in Returns :
        Unrecognised(Ret(ci).kind, Ret(ci).res) =>
            Ret(ci).ret \notin { RetBool(FALSE), RetStr(Ret(ci).res) }

\* C13 amended: command() returns False for every response that is not
\* '*', whatever its shape, and query() returns the response line as it is.
C13_UnrecognisedCoerced ==
    \A ci \in Returns :
        Unrecognised(Ret(ci).kind, Ret(ci).res) =>
            /\ Ret(ci).kind = "command" => Ret(ci).ret = RetBool(FALSE)
            /\ Ret(ci).kind = "query" => Ret(ci).ret = RetStr(Ret(ci).res)

\* C13 witness: a command() has returned from a response that is neither an
\* acknowledgment nor a refusal
C13_CommandGotOtherText ==
    \E ci \in Returns :
        Ret(ci).kind = "command" /\ Unrecognised("command", Ret(ci).res)

\* the kinds of the last k writes the transport received
LastWrites(k) ==
    IF Len(wire) < k THEN <<>>
    ELSE [i \in 1..k |-> wire[Len(wire) - k + i].op]

\* C14: while the worker handles a request, in either variant, what it has
\* written so far is the prescribed beginning of the exchange: the disable
\* directive before the acknowledgment read and the flush, then the command,
\* then (after the response was handed over) the enable directive; and no
\* command is on the wire that does not directly follow a disable directive.
C14_ExchangeOrder ==
    /\ wpc \in {"in_command", "ack0", "flush", "get", "send"} =>
           LastWrites(1) = <<"disable">>
    /\ wpc \in {"read_res", "put", "enable"} =>
           LastWrites(2) = <<"disable", "cmd">>
    /\ wpc = "ack1" => LastWrites(3) = <<"disable", "cmd", "enable">>
    /\ \A i \in 1..Len(wire) :
           wire[i].op = "cmd" => i > 1 /\ wire[i - 1].op = "disable"
    /\ \A i \in 1..Len(wire) :
           wire[i].op = "enable" => i > 1 /\ wire[i - 1].op = "cmd"

\* C15: no request is written to the transport twice: the writes that
\* carried a request belong to pairwise different calls, whatever the
\* outcome of each exchange.
C15_WrittenAtMostOnce ==
    \A i, j \in 1..Len(CmdWrites) :
        i # j => <<CmdWrites[i].by, CmdWrites[i].n>> # <<CmdWrites[j].by, CmdWrites[j].n>>

\* C15 witness: a call has returned from an exchange whose response read
\* timed out, and the worker has since started its next loop iteration with
\* the request written once
C15_TimedOutNotRewritten ==
    /\ \E ci \in Returns : Ret(ci).timeout /\ OwnResponse(ci)
    /\ Len(CmdWrites) = 1
    /\ wpc = "read_idle"
    /\ LastWrites(1) = <<"enable">>

\* Pump.__init__ has returned
Constructed == doing.name \notin {"none", "__init__"}

WorkerApplies == wpc = "classify" /\ wpc' # "classify"

\* the thread using the Pump makes one assignment of set_running_status
CallerSets ==
    /\ todo # <<>>
    /\ Head(todo).st = "setkey"
    /\ todo' = Tail(todo)

\* C17 as stated: running is written by the Communicator thread only.
C17_OnlyWorkerWrites == [][ running' # running => WorkerApplies ]_vars

\* C17 amended: running is written by the Communicator thread when it
\* applies a line read outside an exchange, and by the thread that calls the
\* Pump, in the assignments of set_running_status made from __init__, start,
\* stop and the dispense methods; no other step writes it.
C17_WorkerAndCallerWrite ==
    [][ running' # running =>
          \/ WorkerApplies
          \/ /\ CallerSets
             /\ doing.name \in {"__init__", "start", "stop", "continuous_flow",
                                "dispense_vol_at_rate", "dispense_vol_over_time",
                                "dispense_flow_over_time"} ]_vars

\* C17 witness: the calling thread is about to assign running[ch] while the
\* Communicator thread is about to apply a status line with the opposite
\* value for the same channel
C17_WritesRace ==
    /\ todo # <<>>
    /\ Head(todo).st = "setkey"
    /\ wpc = "classify"
    /\ IsStatusLine(msg)
    /\ DigitValue(msg[3]) = Head(todo).ch
    /\ (msg[2] = "U") # Head(todo).val

\* a write reached the transport, bytes were read from it, or it was closed
TransportUsed ==
    \/ Len(wire') = Len(wire) + 1 /\ SubSeq(wire', 1, Len(wire)) = wire
    \/ Len(rx') < Len(rx)
    \/ closes' # closes

\* the step is one of a thread that calls command()/query() or a Pump method
CallerStep ==
    \/ todo' # todo
    \/ doing' # doing
    \/ \E c \in Callers : cpc'[c] # cpc[c] \/ ncalls'[c] # ncalls[c]
    \/ jpc' # jpc

\* C18: every write to the transport, every read from it and its close()
\* are steps of the Communicator thread: no step of a thread in command(),
\* query() or a Pump method uses the transport.
C18_TransportOnWorkerOnly == [][ TransportUsed => ~CallerStep ]_vars

\* C18 witness: a Pump method is waiting in res_q.get() while the
\* Communicator thread, having written the method's request, reads the response
C18_WorkerReadsForCaller ==
    /\ doing.name = "start"
    /\ cpc[PumpThread] = "waiting"
    /\ wpc = "read_res"
    /\ LastWrites(1) = <<"cmd">>
    /\ wire[Len(wire)].by = PumpThread
    /\ msg # <<>>

\* the thread is in start(c) or stop(c) and its command was acknowledged
AckedStartStop ==
    /\ doing.name \in {"start", "stop"}
    /\ returned[PumpThread] # <<>>
    /\ LastRet = RetBool(TRUE)

\* the channels whose assignment is the next thing the thread does
RECURSIVE PendingKeys(_)
PendingKeys(steps) ==
    IF steps = <<>> \/ Head(steps).st # "setkey" THEN {}
    ELSE {Head(steps).ch} \cup PendingKeys(Tail(steps))

RoundTripDone ==
    /\ doing.name = "event_messaging"
    /\ todo # <<>>
    /\ Head(todo).st = "return"
    /\ Len(returned[PumpThread]) = 2
    /\ returned[PumpThread][1].ret = RetBool(TRUE)
    /\ returned[PumpThread][2].res \in { <<"0">>, <<"1">> }

\* has_event_messaging(): self.hw.query('1xE') == '1'
HasEventMessaging == returned[PumpThread][2].ret = RetStr(<<"1">>)

\* C20: has_event_messaging() called after set_event_messaging(on) returns
\* on, when both are served by the Communicator and the pump stores the flag.
C20_EventMessagingRoundTrip == RoundTripDone => (HasEventMessaging = doing.on)

\* C21, as stated: a bare path selects the Serial variant, a (host, port)
\* pair or a 'tcp://host:port' URL selects the Socket variant, and every
\* other form is rejected before a worker is started or a command is queued
Rejected ==
    /\ doing.name = "rejected"
    /\ variant = "none"
    /\ wpc = "unstarted"
    /\ enq = <<>>
    /\ req_q = <<>>
    /\ wire = <<>>

C21_SelectionByForm ==
    doing.name # "new" =>
        /\ address = SerialPath => variant = "serial"
        /\ address \in {HostPort, TcpUrl} => variant = "socket"
        /\ address \notin {SerialPath, HostPortText, HostPort, TcpUrl} => Rejected

\* C21, amended: the selection goes by the Python type of the address.  A
\* string of any content selects the Serial variant, a tuple of two elements
\* the Socket variant, and everything else is rejected before a worker is
\* started or a command is queued.
C21_SelectionByType ==
    doing.name # "new" =>
        /\ address.type = "str" => variant = "serial"
        /\ address.type = "tuple" /\ address.len = 2 => variant = "socket"
        /\ ~(address.type = "str" \/ (address.type = "tuple" /\ address.len = 2))
               => Rejected

\* a URL was taken for the name of a serial port and the worker started on it
C21_UrlOpenedAsSerialPort ==
    /\ address = TcpUrl
    /\ variant = "serial"
    /\ wpc # "unstarted"

\* the exception the conversions raise for a value out of range: the
\* AssertionError of their assert statements
EncodingError(r) == r.err = "AssertionError" /\ r.s = <<>>

\* a string of decimal digits with no zero in front, unless it is "0"
NoLeadingZeros(s) == IsNumber(s) /\ (Len(s) = 1 \/ Head(s) # "0")

\* C22: for an integer n, _discrete3(n) returns the six zero-padded decimal
\* digits of n when 0 <= n <= 999999 and raises, returning no string, when
\* n is 1000000 or more or is negative
C22_Discrete3Range ==
    (arg.fn = "_discrete3" /\ arg.number.ty = "int") =>
        LET n == arg.number.m * Pow10(arg.number.e)
        IN IF ~arg.number.neg /\ n <= 999999
           THEN /\ out.err = ""
                /\ Len(out.s) = 6
                /\ IsNumber(out.s)
                /\ IntValue(out.s) = n
           ELSE EncodingError(out)

\* _discrete3(1000000) has raised
C22_MillionRefused ==
    /\ arg.fn = "_discrete3"
    /\ arg.number = Number("int", FALSE, 1, 6)
    /\ EncodingError(out)

\* the digits before and after the point of a number, without the point
PlainDigits(x) ==
    IF x.e >= 0 THEN NatStr(x.m * Pow10(x.e))
    ELSE LET p == Pow10(0 - x.e)
             frac == StripZeros(Zfill(NatStr(x.m % p), 0 - x.e))
         IN NatStr(x.m \div p) \o (IF x.m % p = 0 THEN <<>> ELSE frac)

\* C23: _discrete2(v) returns four characters, the integer digits and the
\* fractional digits of v without the point, zero-padded on the left, and
\* raises when there are more than four digits or v is negative
C23_Discrete2Digits ==
    arg.fn = "_discrete2" =>
        IF ~arg.number.neg /\ Len(PlainDigits(arg.number)) <= 4
        THEN out = Returned(Zfill(PlainDigits(arg.number), 4))
        ELSE EncodingError(out)

C25_VolumeEncodings ==
    arg.fn \in {"_volume1", "_volume2"} =>
        LET x == arg.number
            v1 == Volume1(x).s
            v2 == Volume2(x).s
        IN /\ out = (IF arg.fn = "_volume1" THEN Returned(v1) ELSE Returned(v2))
           /\ Len(v1) = 7
           /\ IsNumber(Take(v1, 4))
           /\ v1[5] = "E"
           /\ v1[6] \in {"+", "-"}
           /\ IsDigit(v1[7])
           /\ v2 = Take(v1, 4) \o Drop(v1, 5)
           /\ Volume1([x EXCEPT !.neg = ~x.neg]).s = v1

\* a number with its digits and power of ten made unique
RECURSIVE Normal(_)
Normal(x) ==
    IF x.m = 0 THEN [neg |-> FALSE, m |-> 0, e |-> 0]
    ELSE IF x.m % 10 = 0 THEN Normal([x EXCEPT !.m = @ \div 10, !.e = @ + 1])
    ELSE [neg |-> x.neg, m |-> x.m, e |-> x.e]

\* the arguments a field can hold exactly
Fits(fn, x, units) ==
    LET n == Normal(x)
        digits == Len(NatStr(n.m))
    IN CASE fn \in {"_volume1", "_volume2"} ->
               n.m = 0 \/ (digits <= 4 /\ n.e + digits - 1 \in (0 - 9)..9)
         [] fn = "_discrete2" -> ~n.neg /\ Len(PlainDigits(x)) <= 4
         [] fn = "_discrete3" -> x.ty = "int" /\ InRange(x, 1000000)
         [] fn \in {"_time1", "_time2"} ->
               /\ ~n.neg
               /\ Normal(Encoded(fn, x, units)).e >= 0 - 1
               /\ Tenths(x, units).m <= MaxTime

\* C26: for each of the six conversions and every argument its field can
\* hold, decoding the encoded text gives the argument back
C26_DecodeInvertsEncode ==
    (arg.fn # "none" /\ Fits(arg.fn, arg.number, arg.units)) =>
        /\ out.err = ""
        /\ Normal(Decode(arg.fn, out.s)) = Normal(Encoded(arg.fn, arg.number, arg.units))

\* C27: when the conversion of set_speed, set_tubing_inner_diameter or
\* dispense_vol_at_rate refuses its value, no command of that call has been
\* put on the request queue
C27_EncodingFailsBeforeIO ==
    (/\ doing.name \in {"set_speed", "set_tubing_inner_diameter", "dispense_vol_at_rate"}
     /\ EncodingError(out))
        => enq = <<>>

\* one of the four setters, called without a channel, is about to return
SetAllReturns ==
    /\ doing.name \in {"set_tubing_inner_diameter", "set_speed",
                        "set_volume_setpoint", "set_rotation"}
    /\ doing.channel = NoChannel
    /\ todo # <<>>
    /\ Head(todo).st = "return"

\* C28: a setter called without a channel has issued its set command once
\* for every channel, and returns True if all were acknowledged and False
\* if not
C28_AllChannelsSet ==
    SetAllReturns =>
        /\ Len(enq) = nChannels
        /\ \A i \in 1..Len(enq) : enq[i].cmd.s[1] = Ch(i)
        /\ Head(todo).kind \in {"True", "False"}
        /\ Head(todo).kind = "True" => (nChannels = 0 \/ LastRet.b)
        /\ Head(todo).kind = "False" => ~LastRet.b

\* the Communicator thread has written '1xE0' and has not yet read the
\* acknowledgment of the '1xE1' of the same exchange
ExchangePcs == {"ack0", "flush", "get", "send", "read_res", "put", "enable", "ack1"}

\* C29: from the write of '1xE0' to the read of the acknowledgment of
\* '1xE1' no step changes running; what the reads of that window take from
\* the stream is never classified.
C29_ExchangeLeavesRunning ==
    [][ (wpc \in ExchangePcs) => running' = running ]_vars

\* C29 witness: the response read of an exchange took a status line for
\* channel ch, '1xE1' was written, and running has no entry for ch
C29_StatusLineInExchange ==
    /\ wpc = "ack1"
    /\ served # <<>>
    /\ LET res == served[Len(served)].res IN
       /\ Len(res) = 3
       /\ res[1] = "^"
       /\ res[2] \in {"U", "X"}
       /\ IsDigit(res[3])
       /\ DigitValue(res[3]) \notin DOMAIN running

\* the text ends with one of the two terminators of readline()
Terminated(m) == EndsWith(m, CRLF) \/ EndsWith(m, Star)

\* the Communicator thread is in SocketCommunicator.readline()
SocketReading == variant = "socket" /\ wpc \in {"read_res", "read_idle"}

\* readline() has returned msg
SocketHasRead == variant = "socket" /\ wpc \in {"put", "classify"}

\* one iteration of readline(): it takes at most one character, from the
\* head of the stream, and appends it; it returns at once when the text
\* ends with a terminator, and when nothing came within the timeout
ReadlineByCharacter ==
    [][ (SocketReading /\ wpc' # "dead" /\ (msg' # msg \/ wpc' # wpc)) =>
          /\ Len(msg') <= Len(msg) + 1
          /\ Take(msg', Len(msg)) = msg
          /\ rx = Drop(msg', Len(msg)) \o rx'
          /\ Terminated(msg') => wpc' = AfterReadline(wpc)
          /\ msg' = msg => wpc' = AfterReadline(wpc) ]_vars

\* nothing was taken from the stream after the first terminator: while
\* readline() goes on no prefix of its text ends with a terminator, and the
\* text it returns has no terminator before its end
StopsAtTerminator ==
    /\ SocketReading => \A k \in 1..Len(msg) : ~Terminated(Take(msg, k))
    /\ SocketHasRead => \A k \in 1..(Len(msg) - 1) : ~Terminated(Take(msg, k))

StartStopReturns ==
    /\ doing.name \in {"start", "stop"}
    /\ doing.channel >= 1
    /\ todo # <<>>
    /\ Head(todo).st = "return"
    /\ returned[PumpThread] # <<>>

\* the response command() took for the 'H' or 'I' of this call was '*'
Acknowledged == returned[PumpThread][Len(returned[PumpThread])].res = Star

\* the value running[c] has when the call's outcome is recorded in it
Recorded == IF doing.name = "start" THEN Acknowledged ELSE ~Acknowledged

\* C31 as stated: when start(c) returns, running[c] is True exactly if 'H'
\* was acknowledged with '*', and when stop(c) returns, running[c] is False
\* exactly if 'I' was.
C31_RunningIffAcknowledged ==
    StartStopReturns =>
        /\ doing.channel \in DOMAIN running
        /\ running[doing.channel] = Recorded

\* C31 amended: start(c) and stop(c) return True exactly when their command
\* was acknowledged with '*'; the assignment they make gives running[c] the
\* value True exactly for an acknowledged start or a stop not acknowledged;
\* and a call that returns before the Communicator thread has gone on from
\* the exchange leaves running[c] with that value.  A status line for c the
\* Communicator thread applies after the assignment replaces it.
C31_RunningFollowsAck ==
    /\ [][ (doing.name \in {"start", "stop"} /\ doing.channel >= 1 /\ CallerSets) =>
             /\ Head(todo).ch = doing.channel
             /\ running'[doing.channel] = Recorded ]_vars
    /\ [](StartStopReturns => LastRet = RetBool(Acknowledged))
    /\ []((StartStopReturns /\ wpc = "enable") =>
             /\ doing.channel \in DOMAIN running
             /\ running[doing.channel] = Recorded)

\* C31 witness: start(1) was refused with '#' and is
\* about to return False, with channel 1 recorded as not running
C31_RefusedStart ==
    /\ StartStopReturns
    /\ doing.name = "start"
    /\ doing.channel = 1
    /\ returned[PumpThread][Len(returned[PumpThread])].res = <<"#">>
    /\ LastRet = RetBool(FALSE)
    /\ wpc = "enable"
    /\ ~running[1]

\* how many requests the Communicator thread has taken off req_q
Dequeued == Len(enq) - Len(req_q)

\* the Communicator thread has taken a request and not yet put its response
InExchange == wpc \in {"send", "read_res", "put"}

\* the threads waiting in res_q.get()
Waiting == {t \in Threads : cpc[t] = "waiting"}

\* what holds of the two queues in every state: as C32, but for a request
\* taken by a Communicator thread that an exception has ended since
OneResponseUnlessEnded ==
    /\ Len(served) <= Dequeued
    /\ \A i \in 1..Len(served) : served[i].by = enq[i].by /\ served[i].n = enq[i].n
    /\ (~InExchange /\ wpc # "dead") => Len(served) = Dequeued
    /\ InExchange => Dequeued = Len(served) + 1
    /\ Len(res_q) <= Len(served)
    /\ Len(res_q) <= Cardinality(Waiting)

\* C32: the responses put on res_q are, one for one and in order, those of
\* the requests taken off req_q, the one being served excepted; nothing else
\* is put, and res_q never holds more items than there are threads waiting.
C32_OneResponsePerRequest ==
    /\ Len(served) <= Dequeued
    /\ \A i \in 1..Len(served) : served[i].by = enq[i].by /\ served[i].n = enq[i].n
    /\ ~InExchange => Len(served) = Dequeued
    /\ InExchange => Dequeued = Len(served) + 1
    /\ Len(res_q) <= Len(served)
    /\ Len(res_q) <= Cardinality(Waiting)

\* the thread is in one of the four methods that set up a dispense and start
InDispense ==
    doing.name \in {"continuous_flow", "dispense_vol_at_rate",
                    "dispense_vol_over_time", "dispense_flow_over_time"}

\* the channels the method addresses: the one given, or with 0 (None) every
\* channel that has an entry
Addressed == IF doing.channel >= 1 THEN {doing.channel} ELSE DOMAIN running

\* the next thing the method does is self.hw.command(f'{channel}H')
StartPending ==
    /\ InDispense
    /\ todo # <<>>
    /\ Head(todo).st = "call"
    /\ Head(todo).cmd[2] = "H"
    /\ cpc[PumpThread] = "idle"

\* the method's start command has been put on req_q
StartPut == InDispense /\ enq # <<>> /\ enq[Len(enq)].cmd.s[2] = "H"

\* the method is about to return, its start command answered or not
DispenseReturns ==
    /\ StartPut
    /\ cpc[PumpThread] = "idle"
    /\ Head(todo).st = "return"

\* C33 as stated: every addressed channel is recorded as running when the
\* start command is put on req_q, and when the method returns.
C33_RunningFromStart ==
    (StartPending \/ DispenseReturns) => \A k \in Addressed : running[k]

\* C33 amended: the method makes its assignments before it puts the start
\* command on req_q, they give True to the addressed channels, and with
\* the Communicator thread still where it put the last response these are
\* True when the start command is put; after that the method assigns
\* nothing, so that only a status line the Communicator thread applies can
\* make such an entry False, whatever the answer to the start command.
C33_SetBeforeStartAndKept ==
    /\ [](StartPut => \A i \in 1..Len(todo) : todo[i].st \notin {"set", "setkey"})
    /\ []((StartPending /\ wpc = "enable") => \A k \in Addressed : running[k])
    /\ [][ (InDispense /\ CallerSets) =>
             /\ Head(todo).ch \in Addressed
             /\ running'[Head(todo).ch] ]_vars
    /\ [][ (InDispense /\ \E k \in DOMAIN running : running[k] /\ ~running'[k]) =>
             WorkerApplies ]_vars

\* C33 witness: dispense_vol_over_time on channel 1 is about to return, its
\* start command refused with '#', and channel 1 is recorded as running
C33_RefusedDispenseRuns ==
    /\ DispenseReturns
    /\ doing.name = "dispense_vol_over_time"
    /\ doing.channel = 1
    /\ returned[PumpThread][Len(returned[PumpThread])].res = <<"#">>
    /\ LastRet = RetBool(FALSE)
    /\ running[1]

\* the elements of a sequence
Elements(q) == { q[i] : i \in 1..Len(q) }

\* the channels the claim has set_running_status(status, channel) assign,
\* given the dict it is called on
Targets(run, channel) ==
    IF channel.ty \in {"list", "tuple"} THEN Elements(channel.items)
    ELSE IF channel.n = 0 THEN DOMAIN run
    ELSE {channel.n}

\* C34: set_running_status(status, channel) gives status to every key the
\* dict has when channel is 0, adding none; to the listed channels when
\* channel is a list or tuple; to the one channel otherwise; and leaves
\* every other entry as it was.
C34_AssignsExactlyTargets ==
    [][ (arg' # arg) =>
          LET T == Targets(running, arg'.channel) IN
          /\ DOMAIN running' = (DOMAIN running) \cup T
          /\ \A k \in T : running'[k] = arg'.status
          /\ \A k \in (DOMAIN running) \ T : running'[k] = running[k] ]_vars

\* C34 witness: set_running_status(True, 0) has run on a dict with entries
\* for channels 1 and 2 only: both are True and no key was added
C34_AllKnownSet ==
    /\ arg.fn = "set_running_status"
    /\ arg.channel = ChannelArg("int", 0, <<>>)
    /\ arg.status
    /\ DOMAIN running = {1, 2}
    /\ running[1] /\ running[2]
====
